---- MODULE Spec2Model ----
\* icontool: conversion between a DreamMaker icon sheet (.dmi, a PNG with a
\* metadata text chunk) and its textual container (.dmi.yml).
\*
\* The model follows one invocation of the tool at a time: `compile`
\* (src/src/compile.rs) and `decompile` (src/src/decompile.rs), each as the
\* sequence of steps its function body takes.  Keys of the YAML container are
\* drawn when the code first reads them; the value then stays what it was.
EXTENDS Integers, Sequences, FiniteSets, TLC

\* ------------------------------------------------------------------ bounds
\* Largest number of states in a metadata document.
MaxStates == 2
\* Largest `frames` value of a state (`dirs` is drawn from DirChoices).
MaxFrames == 1

\* `dirs` values of the generated documents (DreamMaker uses 1, 4 and 8).
DirChoices == {1, 4}
\* Frame (icon) sizes of the generated documents, in pixels.
IconSizes == {1, 2}
\* Declared canvas sizes offered under __image_width / __image_height.
DeclSizes == {0, 2, 3, 1024, 1025}
\* The same for the example of the format, whose frames are 32 x 32.
ExampleDeclSizes == {32, 128}
\* Declared canvas sizes of the containers whose frame lists are irregular
\* (a missing or mistyped entry, a wrong count, an unsound frame string).
IrregularDeclSizes == {0, 3, 32}
\* Names of the states of the generated documents, by position.
StateNames == <<<<"i", "d", "l", "e">>, <<"w", "a", "l", "k">>, <<"r", "u", "n">>, <<"s", "i", "t">>>>

\* --------------------------------------------------------------- constants
DMI_METADATA_KEY == <<"_", "_", "d", "m", "i", "_", "m", "e", "t", "a", "d", "a", "t", "a">>
DMI_PATH_KEY == <<"_", "_", "d", "m", "i", "_", "p", "a", "t", "h">>
IMAGE_HEIGHT_KEY == <<"_", "_", "i", "m", "a", "g", "e", "_", "h", "e", "i", "g", "h", "t">>
IMAGE_WIDTH_KEY == <<"_", "_", "i", "m", "a", "g", "e", "_", "w", "i", "d", "t", "h">>
ICONTOOL_KEYS == {DMI_METADATA_KEY, DMI_PATH_KEY, IMAGE_HEIGHT_KEY, IMAGE_WIDTH_KEY}
MAX_IMAGE_HEIGHT == 6144
MAX_IMAGE_WIDTH == 6144
\* The literal the final sanity check of get_image_dimensions compares with.
SanityLimit == 1024
\* Frame size the grammar assumes when the width / height line is absent.
DefaultIconSize == 32
\* Bytes per RGBA pixel.
BytesPerPixel == 4

\* ------------------------------------------------------------------ results
\* Result<T> of src/src/error.rs, with the payload of the variants the model
\* inspects (FrameCountMismatch(name, expected, actual), TooManyIconStates(w, h),
\* IncompleteParseError(text), the text in the place of the name).
\* A panic (unwrap, index out of bounds, division by zero) is a third outcome.
Running == [tag |-> "Running", err |-> "", name |-> <<>>, a |-> 0, b |-> 0, ahi |-> 0, bhi |-> 0]
Ok == [tag |-> "Ok", err |-> "", name |-> <<>>, a |-> 0, b |-> 0, ahi |-> 0, bhi |-> 0]
Err(e) == [tag |-> "Err", err |-> e, name |-> <<>>, a |-> 0, b |-> 0, ahi |-> 0, bhi |-> 0]
ErrWith(e, n, x, y) ==
    [tag |-> "Err", err |-> e, name |-> n, a |-> x, b |-> y, ahi |-> 0, bhi |-> 0]
\* An error carrying two u32 values x and y: a and b are their low 31 bits,
\* ahi and bhi their top bits.
ErrWide(e, x, y) ==
    [tag |-> "Err", err |-> e, name |-> <<>>, a |-> x.v, b |-> y.v, ahi |-> x.hi, bhi |-> y.hi]
Panic(why) == [tag |-> "Panic", err |-> why, name |-> <<>>, a |-> 0, b |-> 0, ahi |-> 0, bhi |-> 0]

\* ------------------------------------------------------------- YAML values
\* serde_yml::Value as far as the helpers distinguish it: an integer, a
\* string, anything else, or no entry under the key.  An integer is
\* hi * 2^31 + n with 0 <= n < 2^31 when it is not negative, so that values
\* beyond 32 bits can be written down: u32::MAX is hi = 1, n = 2147483647, and
\* 2^32 is hi = 2, n = 0.  A negative integer is hi = 0 and n < 0.
YAbsent == [t |-> "absent", hi |-> 0, n |-> 0, s |-> <<>>]
YOther == [t |-> "other", hi |-> 0, n |-> 0, s |-> <<>>]
YInt(n) == [t |-> "int", hi |-> 0, n |-> n, s |-> <<>>]
YWide(hi, n) == [t |-> "int", hi |-> hi, n |-> n, s |-> <<>>]
YStr(s) == [t |-> "str", hi |-> 0, n |-> 0, s |-> s]

\* A string value under a state's name is a sequence of symbols.  NL is the
\* newline character; every other symbol stands for one newline-free transport
\* text, described by what the codec makes of it: whether it is valid base64,
\* whether the decoded block decompresses, and the bytes it decompresses to.
\* The string under __dmi_metadata is a metadata text, character by character.
NL == [nl |-> TRUE, b64 |-> FALSE, lz4 |-> FALSE, bytes |-> <<>>]
Transport(b64ok, lz4ok, bytes) == [nl |-> FALSE, b64 |-> b64ok, lz4 |-> lz4ok, bytes |-> bytes]

\* ------------------------------------------------------------ small helpers
\* The element of a set of one element: Only({e(x) : x \in {v}}) is e(v), with
\* v evaluated once.
Only(S) == CHOOSE x \in S : TRUE

\* ------------------------------------------------------------ u32 arithmetic
\* A u32 is hi * 2^31 + v, hi being 0 or 1 and v below 2^31.  The result of an
\* operation is the exact result modulo 2^32, and over tells whether the exact
\* result of it, or of an operation that made one of its operands, was beyond
\* u32: there a build with overflow checks panics and one without goes on
\* with the wrapped value.
U32(hi, v) == [over |-> FALSE, hi |-> hi, v |-> v]

\* The upper and the lower sixteen bits of a u32.
Halves(a) == <<a.hi * 32768 + a.v \div 65536, a.v % 65536>>

\* The u32 of the lower sixteen bits of high, followed by the sixteen bits low.
Joined(over, high, low) ==
    [over |-> over, hi |-> (high % 65536) \div 32768, v |-> (high % 32768) * 65536 + low]

u32_le(a, b) == a.hi < b.hi \/ (a.hi = b.hi /\ a.v <= b.v)

\* a + b on u32.
u32_add(x, y) ==
    Only({LET low == Halves(a)[2] + Halves(b)[2]
              high == Halves(a)[1] + Halves(b)[1] + low \div 65536
          IN Joined(a.over \/ b.over \/ high >= 65536, high, low % 65536) :
          a \in {x}, b \in {y}})

\* a * b on u32, from the products of the sixteen-bit halves.
u32_mul(x, y) ==
    Only({LET Mul16(m, n) ==
                  LET p0 == m * (n % 256)
                      p1 == m * (n \div 256)
                      sum == (p1 % 256) * 256 + p0
                  IN <<p1 \div 256 + sum \div 65536, sum % 65536>>
              low == Mul16(Halves(a)[2], Halves(b)[2])
              c1 == Mul16(Halves(a)[1], Halves(b)[2])
              c2 == Mul16(Halves(a)[2], Halves(b)[1])
              high == low[1] + c1[2] + c2[2]
          IN Joined(a.over \/ b.over \/ (Halves(a)[1] > 0 /\ Halves(b)[1] > 0)
                        \/ c1[1] > 0 \/ c2[1] > 0 \/ high >= 65536,
                    high, low[2]) :
          a \in {x}, b \in {y}})

\* a / b on u32, b not being zero.
u32_div(x, y) ==
    Only({IF a.hi = 0 /\ b.hi = 0 THEN [over |-> a.over \/ b.over, hi |-> 0, v |-> a.v \div b.v]
          ELSE IF b.hi = 1
          THEN [over |-> a.over \/ b.over, hi |-> 0, v |-> IF u32_le(b, a) THEN 1 ELSE 0]
          ELSE LET half == 1073741824 + a.v \div 2
                   q == half \div b.v
                   r == half % b.v
                   c == IF r >= b.v - r - (a.v % 2) THEN 1 ELSE 0
               IN [over |-> a.over \/ b.over, hi |-> q \div 1073741824,
                   v |-> 2 * (q % 1073741824) + c] :
          a \in {x}, b \in {y}})

\* num_integer::Roots::sqrt on a u32: the floor of the square root, found bit
\* after bit from the highest.
RECURSIVE SqrtBits(_, _, _)
SqrtBits(a, r, bit) ==
    IF bit = 0 THEN r
    ELSE Only({SqrtBits(a, next, half) :
               next \in {IF u32_le(u32_mul(U32(0, r + bit), U32(0, r + bit)), a)
                         THEN r + bit ELSE r},
               half \in {bit \div 2}})

sqrt(x) == Only({SqrtBits(a, 0, 32768) : a \in {x}})

\* ------------------------------------------------------------------ strings
\* A string is the sequence of its characters.
DigitChars == {"0", "1", "2", "3", "4", "5", "6", "7", "8", "9"}
DigitValue(c) == CHOOSE d \in 0..9 : <<"0", "1", "2", "3", "4", "5", "6", "7", "8", "9">>[d + 1] = c

\* u32::MAX in decimal.
U32MaxDigits == <<"4", "2", "9", "4", "9", "6", "7", "2", "9", "5">>

\* ---------------------------------------------------------------- metadata
\* The nom parser of src/src/metadata.rs.  A parser is applied to the input at
\* a position (the index of the first character not yet consumed) and returns
\* where it stopped and what it recognised, or nom's recoverable Err::Error, or
\* Err::Incomplete; a panic inside a parser is a fourth outcome.
Done(i, v) == [kind |-> "Ok", i |-> i, v |-> v]
Error(i) == [kind |-> "Error", i |-> i, v |-> <<>>]
Incomplete(i) == [kind |-> "Incomplete", i |-> i, v |-> <<>>]
Unwound(i, why) == [kind |-> "Panic", i |-> i, v |-> why]

RECURSIVE TakeWhile(_, _, _)
TakeWhile(input, i, chars) ==
    IF i <= Len(input) /\ input[i] \in chars THEN TakeWhile(input, i + 1, chars) ELSE i

RECURSIVE TakeUntil(_, _, _)
TakeUntil(input, i, chars) ==
    IF i <= Len(input) /\ input[i] \notin chars THEN TakeUntil(input, i + 1, chars) ELSE i


\* nom::bytes::complete::tag
tag(t, input, i) ==
    IF i + Len(t) - 1 <= Len(input) /\ \A k \in 1..Len(t) : input[i + k - 1] = t[k]
    THEN Done(i + Len(t), t)
    ELSE Error(i)

\* nom::character::complete::digit1
digit1(input, i) ==
    Only({IF j = i THEN Error(i) ELSE Done(j, SubSeq(input, i, j - 1)) :
          j \in {TakeWhile(input, i, DigitChars)}})

\* nom::character::complete::multispace0
multispace0(input, i) ==
    Only({Done(j, SubSeq(input, i, j - 1)) : j \in {TakeWhile(input, i, {" ", "\t", "\r", "\n"})}})

\* nom::bytes::complete::is_not
is_not(chars, input, i) ==
    Only({IF j = i THEN Error(i) ELSE Done(j, SubSeq(input, i, j - 1)) :
          j \in {TakeUntil(input, i, chars)}})

\* ws(tag(t)): delimited(multispace0, tag(t), multispace0)
ws(t, input, i) ==
    Only({IF found.kind # "Ok" THEN found
          ELSE Done(multispace0(input, found.i).i, found.v) :
          found \in {tag(t, input, multispace0(input, i).i)}})

\* str::parse::<u32>(): an optional '+', then decimal digits only, the value
\* at most u32::MAX.  [ok, v].
RECURSIVE Decimal(_, _)
Decimal(digits, acc) ==
    IF digits = <<>> THEN acc ELSE Decimal(Tail(digits), acc * 10 + DigitValue(Head(digits)))

RECURSIVE Significant(_)
Significant(digits) ==
    IF Len(digits) > 1 /\ Head(digits) = "0" THEN Significant(Tail(digits)) ELSE digits

RECURSIVE AtMost(_, _)
AtMost(a, b) ==
    IF a = <<>> THEN TRUE
    ELSE IF DigitValue(Head(a)) # DigitValue(Head(b))
    THEN DigitValue(Head(a)) < DigitValue(Head(b))
    ELSE AtMost(Tail(a), Tail(b))

parse_u32(s) ==
    Only({IF digits = <<>> \/ \E k \in 1..Len(digits) : digits[k] \notin DigitChars
          THEN [ok |-> FALSE, v |-> 0]
          ELSE Only({IF Len(sig) > Len(U32MaxDigits)
                        \/ (Len(sig) = Len(U32MaxDigits) /\ ~AtMost(sig, U32MaxDigits))
                     THEN [ok |-> FALSE, v |-> 0]
                     ELSE [ok |-> TRUE, v |-> Decimal(sig, 0)] :
                     sig \in {Significant(digits)}}) :
          digits \in {IF s # <<>> /\ Head(s) = "+" THEN Tail(s) ELSE s}})

\* The messages of the panics of unwrap.
UnwrapFailed == "called Result::unwrap() on an Err value"
UnwrapNone == "called Option::unwrap() on a None value"

\* str::split(","): the pieces between the separators; never empty.
RECURSIVE split_on(_, _)
split_on(sep, s) ==
    IF \A k \in 1..Len(s) : s[k] # sep THEN <<s>>
    ELSE Only({<<SubSeq(s, 1, j - 1)>> \o split_on(sep, SubSeq(s, j + 1, Len(s))) :
               j \in {k \in 1..Len(s) : s[k] = sep /\ \A m \in 1..(k - 1) : s[m] # sep}})

parse_version(input, i) ==
    Only({IF t.kind # "Ok" THEN t ELSE
    Only({IF major_version.kind # "Ok" THEN major_version ELSE
    Only({IF dot.kind # "Ok" THEN dot ELSE
    Only({IF minor_version.kind # "Ok" THEN minor_version ELSE
    Only({IF nl.kind # "Ok" THEN nl
          ELSE Done(nl.i, major_version.v \o <<".">> \o minor_version.v) :
          nl \in {tag(<<"\n">>, input, minor_version.i)}}) :
          minor_version \in {digit1(input, dot.i)}}) :
          dot \in {tag(<<".">>, input, major_version.i)}}) :
          major_version \in {digit1(input, t.i)}}) :
          t \in {tag(<<"v", "e", "r", "s", "i", "o", "n", " ", "=", " ">>, input, i)}})

parse_width(input, i) ==
    Only({IF t.kind # "Ok" THEN t ELSE
    Only({IF width.kind # "Ok" THEN width ELSE
    Only({IF nl.kind # "Ok" THEN nl ELSE
    Only({IF ~parsed.ok THEN Unwound(nl.i, UnwrapFailed) ELSE Done(nl.i, parsed.v) :
          parsed \in {parse_u32(width.v)}}) :
          nl \in {tag(<<"\n">>, input, width.i)}}) :
          width \in {digit1(input, t.i)}}) :
          t \in {tag(<<"\t", "w", "i", "d", "t", "h", " ", "=", " ">>, input, i)}})

parse_height(input, i) ==
    Only({IF t.kind # "Ok" THEN t ELSE
    Only({IF height.kind # "Ok" THEN height ELSE
    Only({IF nl.kind # "Ok" THEN nl ELSE
    Only({IF ~parsed.ok THEN Unwound(nl.i, UnwrapFailed) ELSE Done(nl.i, parsed.v) :
          parsed \in {parse_u32(height.v)}}) :
          nl \in {tag(<<"\n">>, input, height.i)}}) :
          height \in {digit1(input, t.i)}}) :
          t \in {tag(<<"\t", "h", "e", "i", "g", "h", "t", " ", "=", " ">>, input, i)}})

\* alt((parse_width, success(32))): the second branch on Err::Error only.
parse_optional_width(input, i) ==
    Only({IF width.kind = "Error" THEN Done(i, DefaultIconSize) ELSE width :
          width \in {parse_width(input, i)}})

\* The height line required.
parse_required_height(input, i) == parse_height(input, i)

parse_optional_height(input, i) ==
    Only({IF height.kind = "Error" THEN Done(i, DefaultIconSize) ELSE height :
          height \in {parse_height(input, i)}})

\* The loop of in_quotes over the characters from position k.
RECURSIVE InQuotesFrom(_, _, _, _)
InQuotesFrom(input, k, ret, skip_delimiter) ==
    IF k > Len(input) THEN Incomplete(k)
    ELSE IF input[k] = "\\" /\ ~skip_delimiter
    THEN InQuotesFrom(input, k + 1, ret, TRUE)
    ELSE IF input[k] = "\"" /\ ~skip_delimiter
    THEN Done(k, ret)
    ELSE InQuotesFrom(input, k + 1, Append(ret, input[k]), FALSE)

\* Up to the first double quote, escaped or not.
in_quotes_unescaped(input, i) ==
    Only({IF j > Len(input) THEN Incomplete(j) ELSE Done(j, SubSeq(input, i, j - 1)) :
          j \in {TakeUntil(input, i, {"\""})}})

in_quotes(input, i) == InQuotesFrom(input, i, <<>>, FALSE)

parse_quoted_string(input, i) ==
    Only({IF open.kind # "Ok" THEN open ELSE
    Only({IF qs.kind # "Ok" THEN qs ELSE
    Only({IF close.kind # "Ok" THEN close ELSE Done(close.i, qs.v) :
          close \in {tag(<<"\"">>, input, qs.i)}}) :
          qs \in {in_quotes(input, open.i)}}) :
          open \in {tag(<<"\"">>, input, i)}})

parse_state_name(input, i) ==
    Only({IF t.kind # "Ok" THEN t ELSE
    Only({IF name.kind # "Ok" THEN name ELSE
    Only({IF nl.kind # "Ok" THEN nl ELSE Done(nl.i, name.v) :
          nl \in {tag(<<"\n">>, input, name.i)}}) :
          name \in {parse_quoted_string(input, t.i)}}) :
          t \in {tag(<<"s", "t", "a", "t", "e", " ", "=", " ">>, input, i)}})

parse_property_name(input, i) == is_not({" "}, input, i)
parse_property_value(input, i) == is_not({"\n"}, input, i)

parse_state_property(input, i) ==
    Only({IF tab.kind # "Ok" THEN tab ELSE
    Only({IF name.kind # "Ok" THEN name ELSE
    Only({IF eq.kind # "Ok" THEN eq ELSE
    Only({IF value.kind # "Ok" THEN value ELSE
    Only({IF nl.kind # "Ok" THEN nl
          ELSE Done(nl.i, [name |-> name.v, value |-> value.v]) :
          nl \in {tag(<<"\n">>, input, value.i)}}) :
          value \in {parse_property_value(input, eq.i)}}) :
          eq \in {tag(<<" ", "=", " ">>, input, name.i)}}) :
          name \in {parse_property_name(input, tab.i)}}) :
          tab \in {tag(<<"\t">>, input, i)}})

\* many0(parse_state_property): stops at the first Err::Error, keeping what
\* it has.
RECURSIVE ManyProperties(_, _, _)
ManyProperties(input, i, acc) ==
    Only({IF prop.kind = "Error" THEN Done(i, acc)
          ELSE IF prop.kind # "Ok" THEN prop
          ELSE IF prop.i = i THEN Error(i)
          ELSE ManyProperties(input, prop.i, Append(acc, prop.v)) :
          prop \in {parse_state_property(input, i)}})

parse_state_properties(input, i) == ManyProperties(input, i, <<>>)

\* The loop of parse_state over the properties, from property k.  st holds
\* the Option variables of parse_state: <<>> is None, <<v>> is Some(v).
RECURSIVE MatchProperties(_, _, _)
MatchProperties(props, k, st) ==
    IF k > Len(props) THEN [kind |-> "Ok", st |-> st]
    ELSE Only({
         IF prop.name = <<"d", "e", "l", "a", "y">>
         THEN MatchProperties(props, k + 1, [st EXCEPT !.delay = <<split_on(",", prop.value)>>])
         ELSE IF prop.name = <<"d", "i", "r", "s">>
         THEN Only({IF ~parsed.ok THEN [kind |-> "Panic", st |-> st]
                    ELSE MatchProperties(props, k + 1, [st EXCEPT !.dirs = <<parsed.v>>]) :
                    parsed \in {parse_u32(prop.value)}})
         ELSE IF prop.name = <<"f", "r", "a", "m", "e", "s">>
         THEN Only({IF ~parsed.ok THEN [kind |-> "Panic", st |-> st]
                    ELSE MatchProperties(props, k + 1, [st EXCEPT !.frames = <<parsed.v>>]) :
                    parsed \in {parse_u32(prop.value)}})
         ELSE IF prop.name = <<"h", "o", "t", "s", "p", "o", "t">>
         THEN MatchProperties(props, k + 1, [st EXCEPT !.hotspot = <<split_on(",", prop.value)>>])
         ELSE IF prop.name = <<"l", "o", "o", "p">>
         THEN MatchProperties(props, k + 1, [st EXCEPT !._loop = <<prop.value>>])
         ELSE IF prop.name = <<"m", "o", "v", "e", "m", "e", "n", "t">>
         THEN MatchProperties(props, k + 1, [st EXCEPT !.movement = <<prop.value>>])
         ELSE IF prop.name = <<"r", "e", "w", "i", "n", "d">>
         THEN MatchProperties(props, k + 1, [st EXCEPT !.rewind = <<prop.value>>])
         ELSE [kind |-> "Error", st |-> st] :
         prop \in {props[k]}})

\* DreamMakerIconState
IconState(name, delay, dirs, frames, hotspot, loop, movement, rewind) ==
    [name |-> name, delay |-> delay, dirs |-> dirs, frames |-> frames, hotspot |-> hotspot,
     _loop |-> loop, movement |-> movement, rewind |-> rewind]

parse_state(input, i) ==
    Only({IF name.kind # "Ok" THEN name ELSE
    Only({IF props.kind # "Ok" THEN props ELSE
    Only({IF matched.kind = "Panic" THEN Unwound(props.i, UnwrapFailed)
          ELSE IF matched.kind = "Error" THEN Error(props.i)
          ELSE IF matched.st.dirs = <<>> \/ matched.st.frames = <<>>
          THEN Unwound(props.i, UnwrapNone)
          ELSE Done(props.i, [matched.st EXCEPT !.dirs = matched.st.dirs[1],
                                                !.frames = matched.st.frames[1]]) :
          matched \in {MatchProperties(props.v, 1,
                           IconState(name.v, <<>>, <<>>, <<>>, <<>>, <<>>, <<>>, <<>>))}}) :
          props \in {parse_state_properties(input, name.i)}}) :
          name \in {parse_state_name(input, i)}})

\* many0(parse_state)
RECURSIVE ManyStates(_, _, _)
ManyStates(input, i, acc) ==
    Only({IF state.kind = "Error" THEN Done(i, acc)
          ELSE IF state.kind # "Ok" THEN state
          ELSE IF state.i = i THEN Error(i)
          ELSE ManyStates(input, state.i, Append(acc, state.v)) :
          state \in {parse_state(input, i)}})

parse_states(input, i) == ManyStates(input, i, <<>>)

\* DreamMakerIconMetadata
NoDmi == [version |-> <<>>, width |-> 0, height |-> 0, states |-> <<>>]
NoText == <<>>

nomify_metadata(input, i) ==
    Only({IF begin.kind # "Ok" THEN begin ELSE
    Only({IF version.kind # "Ok" THEN version ELSE
    Only({IF width.kind # "Ok" THEN width ELSE
    Only({IF height.kind # "Ok" THEN height ELSE
    Only({IF states.kind # "Ok" THEN states ELSE
    Only({IF end.kind # "Ok" THEN end
          ELSE Done(end.i, [version |-> version.v, width |-> width.v, height |-> height.v,
                            states |-> states.v]) :
          end \in {ws(<<"#", " ", "E", "N", "D", " ", "D", "M", "I">>, input, states.i)}}) :
          states \in {parse_states(input, height.i)}}) :
          height \in {parse_optional_height(input, width.i)}}) :
          width \in {parse_optional_width(input, version.i)}}) :
          version \in {parse_version(input, begin.i)}}) :
          begin \in {ws(<<"#", " ", "B", "E", "G", "I", "N", " ", "D", "M", "I">>, input, i)}})

\* Whatever follows the END tag let through.
parse_metadata_prefix(text) ==
    Only({IF parsed.kind = "Panic" THEN [res |-> Panic(parsed.v), dmi |-> NoDmi]
          ELSE IF parsed.kind # "Ok" THEN [res |-> Err("ParseError"), dmi |-> NoDmi]
          ELSE [res |-> Ok, dmi |-> parsed.v] :
          parsed \in {nomify_metadata(text, 1)}})

\* parse_metadata: nom's errors become ParseError; input left over after the
\* END tag is IncompleteParseError, which carries it.
parse_metadata(text) ==
    Only({IF parsed.kind = "Panic" THEN [res |-> Panic(parsed.v), dmi |-> NoDmi]
          ELSE IF parsed.kind # "Ok" THEN [res |-> Err("ParseError"), dmi |-> NoDmi]
          ELSE IF parsed.i <= Len(text)
          THEN [res |-> ErrWith("IncompleteParseError", SubSeq(text, parsed.i, Len(text)), 0, 0),
                dmi |-> NoDmi]
          ELSE [res |-> Ok, dmi |-> parsed.v] :
          parsed \in {nomify_metadata(text, 1)}})

\* ------------------------------------------------------- metadata documents
\* The text of a metadata document, as DreamMaker writes it.
RECURSIVE ToDecimal(_)
ToDecimal(n) ==
    IF n < 10 THEN <<<<"0", "1", "2", "3", "4", "5", "6", "7", "8", "9">>[n + 1]>>
    ELSE ToDecimal(n \div 10) \o ToDecimal(n % 10)

RECURSIVE Escaped(_)
Escaped(name) ==
    IF name = <<>> THEN <<>>
    ELSE (IF Head(name) \in {"\"", "\\"} THEN <<"\\", Head(name)>> ELSE <<Head(name)>>)
         \o Escaped(Tail(name))

StateBlock(state) ==
    <<"s", "t", "a", "t", "e", " ", "=", " ">> \o <<"\"">> \o Escaped(state.name) \o <<"\"", "\n">>
    \o <<"\t", "d", "i", "r", "s", " ", "=", " ">> \o ToDecimal(state.dirs) \o <<"\n">>
    \o <<"\t", "f", "r", "a", "m", "e", "s", " ", "=", " ">> \o ToDecimal(state.frames) \o <<"\n">>

RECURSIVE StateBlocks(_)
StateBlocks(sts) == IF sts = <<>> THEN <<>> ELSE StateBlock(Head(sts)) \o StateBlocks(Tail(sts))

\* A text with the optional width and height lines (a sequence of zero or one
\* number) and the state blocks; without the BEGIN tag when it is not to be
\* grammatical, and with input after the END tag when it is to have some.
MetadataText(grammatical, trailing, w, h, sts) ==
    (IF grammatical THEN <<"#", " ", "B", "E", "G", "I", "N", " ", "D", "M", "I", "\n">> ELSE <<>>)
    \o <<"v", "e", "r", "s", "i", "o", "n", " ", "=", " ", "4", ".", "0", "\n">>
    \o (IF w = <<>> THEN <<>> ELSE <<"\t", "w", "i", "d", "t", "h", " ", "=", " ">> \o ToDecimal(w[1]) \o <<"\n">>)
    \o (IF h = <<>> THEN <<>> ELSE <<"\t", "h", "e", "i", "g", "h", "t", " ", "=", " ">> \o ToDecimal(h[1]) \o <<"\n">>)
    \o StateBlocks(sts)
    \o <<"#", " ", "E", "N", "D", " ", "D", "M", "I", "\n">>
    \o (IF trailing THEN <<"#", " ", "E", "N", "D", " ", "D", "M", "I", "\n">> ELSE <<>>)

\* --------------------------------------------------------- IndexMapHelper
\* value_u64 as u32 without the test against u32::MAX: the value modulo 2^32.
get_u32_truncating(value) ==
    IF value.t = "absent" THEN [res |-> Err("MissingKey"), hi |-> 0, v |-> 0]
    ELSE IF value.t = "int" /\ value.n >= 0
    THEN [res |-> Ok, hi |-> value.hi % 2, v |-> value.n]
    ELSE [res |-> Err("InvalidType"), hi |-> 0, v |-> 0]

\* The u32 returned is hi * 2^31 + v, hi being 0 or 1.  as_u64 gives nothing
\* for a negative integer and for what is not an integer.
get_u32(value) ==
    IF value.t = "absent" THEN [res |-> Err("MissingKey"), hi |-> 0, v |-> 0]
    ELSE IF value.t = "int" /\ value.n >= 0
    THEN IF value.hi >= 2
         THEN [res |-> Err("InvalidType"), hi |-> 0, v |-> 0]
         ELSE [res |-> Ok, hi |-> value.hi, v |-> value.n]
    ELSE [res |-> Err("InvalidType"), hi |-> 0, v |-> 0]

get_string(value) ==
    IF value.t = "absent" THEN [res |-> Err("MissingKey"), v |-> <<>>]
    ELSE IF value.t = "str" THEN [res |-> Ok, v |-> value.s]
    ELSE [res |-> Err("InvalidType"), v |-> <<>>]

\* str::lines() in place of split: no empty piece after a last newline.
split_lines(s) ==
    LET pieces == split_on(NL, s)
    IN IF pieces[Len(pieces)] = <<>> THEN SubSeq(pieces, 1, Len(pieces) - 1) ELSE pieces

\* str::split('\n'): the pieces between newlines; never empty.
RECURSIVE split(_)
split(s) ==
    IF \A i \in 1..Len(s) : ~s[i].nl THEN <<s>>
    ELSE LET i == CHOOSE j \in 1..Len(s) : s[j].nl /\ \A k \in 1..(j - 1) : ~s[k].nl
         IN <<SubSeq(s, 1, i - 1)>> \o split(SubSeq(s, i + 1, Len(s)))

\* [String]::join("\n")
RECURSIVE join(_)
join(fs) ==
    IF fs = <<>> THEN <<>>
    ELSE IF Len(fs) = 1 THEN fs[1]
    ELSE fs[1] \o <<NL>> \o join(Tail(fs))

\* (variant) the empty pieces left out.
get_icon_state_frames_not_empty(value) ==
    IF value.t = "absent" THEN [res |-> Err("MissingKey"), frames |-> <<>>]
    ELSE IF value.t = "str"
    THEN [res |-> Ok, frames |-> SelectSeq(split(value.s), LAMBDA f : f # <<>>)]
    ELSE [res |-> Err("InvalidType"), frames |-> <<>>]

get_icon_state_frames(value) ==
    IF value.t = "absent" THEN [res |-> Err("MissingKey"), frames |-> <<>>]
    ELSE IF value.t = "str" THEN [res |-> Ok, frames |-> split(value.s)]
    ELSE [res |-> Err("InvalidType"), frames |-> <<>>]

\* ------------------------------------------------------------- frame codec
\* BASE64_STANDARD.decode followed by decompress_size_prepended, on one frame
\* string.  The empty string decodes to no bytes, which is too short to hold
\* the prepended size.
decode_frame(s) ==
    IF Len(s) = 0 THEN [res |-> Err("DecompressError"), bytes |-> <<>>]
    ELSE IF Len(s) > 1 \/ ~s[1].b64 THEN [res |-> Err("DecodeError"), bytes |-> <<>>]
    ELSE IF ~s[1].lz4 THEN [res |-> Err("DecompressError"), bytes |-> <<>>]
    ELSE [res |-> Ok, bytes |-> s[1].bytes]

\* compress_prepend_size followed by BASE64_STANDARD.encode.
stringify_pixel_data(pixel_data) == <<Transport(TRUE, TRUE, pixel_data)>>

\* ------------------------------------------------------------------- canvas
\* An RGBA8 image: its dimensions and, over the zeroed buffer that
\* DynamicImage::new_rgba8 allocates, the frame blocks written to it in order
\* (where, how large, and the frame data the pixels were taken from).
ZeroPixel == <<0, 0, 0, 0>>
new_rgba8(w, h) == [width |-> w, height |-> h, blocks |-> <<>>]
NoImage == new_rgba8(0, 0)
InBounds(img, x, y) == x >= 0 /\ y >= 0 /\ x < img.width /\ y < img.height

\* The pixel of a frame at x, y inside its block, as paint_frames indexes it.
FrameIndex(x, y, icon_width) == (y * icon_width + x) * BytesPerPixel

FramePixel(data, x, y, icon_width) ==
    LET index == FrameIndex(x, y, icon_width)
    IN <<data[index + 1], data[index + 2], data[index + 3], data[index + 4]>>

Covers(block, x, y) ==
    x >= block.x /\ x < block.x + block.w /\ y >= block.y /\ y < block.y + block.h

\* The pixel at x, y: what the last block written over it put there.
get_pixel(img, x, y) ==
    LET over == {i \in 1..Len(img.blocks) : Covers(img.blocks[i], x, y)}
    IN IF over = {} THEN ZeroPixel
       ELSE LET block == img.blocks[CHOOSE i \in over : \A j \in over : j <= i]
            IN FramePixel(block.data, x - block.x, y - block.y, block.w)

\* ------------------------------------------------------ compile: dimensions
\* The loop adding state.dirs * state.frames of every state.
RECURSIVE frames_needed(_)
frames_needed(d) ==
    IF d.states = <<>> THEN U32(0, 0)
    ELSE Only({u32_add(sum, u32_mul(U32(0, state.dirs), U32(0, state.frames))) :
               sum \in {frames_needed([d EXCEPT !.states = SubSeq(@, 1, Len(@) - 1)])},
               state \in {d.states[Len(d.states)]}})

\* The final sanity check of get_image_dimensions.
TooLarge(w, h) == w.hi = 1 \/ w.v > SanityLimit \/ h.hi = 1 \/ h.v > SanityLimit

\* frames_needed_per_row of the branch that calculates the new dimensions.
FramesNeededPerRow(icon_width, icon_height, needed) ==
    Only({[over |-> pixels_square_needed.over, hi |-> 0,
           v |-> u32_div(U32(0, sqrt(pixels_square_needed)), icon_width).v + 1] :
          pixels_square_needed \in {u32_mul(u32_mul(icon_width, icon_height), needed)}})

\* (variant) the frames per row counted with the height of a frame.
GrownWidthByHeight(icon_width, icon_height, needed) ==
    Only({u32_mul([over |-> pixels_square_needed.over, hi |-> 0,
                   v |-> u32_div(U32(0, sqrt(pixels_square_needed)), icon_height).v + 1],
                  icon_width) :
          pixels_square_needed \in {u32_mul(u32_mul(icon_width, icon_height), needed)}})

\* The branch that calculates the new dimensions of the image.
GrownWidth(icon_width, icon_height, needed) ==
    u32_mul(FramesNeededPerRow(icon_width, icon_height, needed), icon_width)

\* (variant) the row count multiplied by the width of a frame.
GrownHeightByWidth(icon_width, icon_height, needed) ==
    Only({u32_mul(u32_add(u32_div(needed, frames_needed_per_row), U32(0, 1)), icon_width) :
          frames_needed_per_row \in {FramesNeededPerRow(icon_width, icon_height, needed)}})

\* (variant) no spare row.
GrownHeightNoSpareRow(icon_width, icon_height, needed) ==
    Only({u32_mul(u32_div(needed, frames_needed_per_row), icon_height) :
          frames_needed_per_row \in {FramesNeededPerRow(icon_width, icon_height, needed)}})

GrownHeight(icon_width, icon_height, needed) ==
    Only({u32_mul(u32_add(u32_div(needed, frames_needed_per_row), U32(0, 1)), icon_height) :
          frames_needed_per_row \in {FramesNeededPerRow(icon_width, icon_height, needed)}})

\* (variant) growing only when strictly more frames are needed than fit.
MustGrowOnlyWhenShort(needed, available) == ~u32_le(needed, available)

\* Whether the declared canvas is taken as not sufficient.
MustGrow(needed, available) == u32_le(available, needed)

\* get_image_dimensions once both declared dimensions have been read, in a
\* build with or without overflow checks: the outcome, the dimensions it
\* computed (w and h their low 31 bits, whi and hhi their top bits; also
\* carried by the error) and whether it took the growth branch.
get_image_dimensions(declared_width, declared_height, dmi, overflow_checks) ==
    Only({
    IF overflow_checks /\ needed.over
    THEN [res |-> Panic("attempt to add or multiply with overflow"), w |-> declared_width.v,
          whi |-> declared_width.hi, h |-> declared_height.v, hhi |-> declared_height.hi,
          grown |-> FALSE]
    ELSE IF icon_width.v = 0 \/ icon_height.v = 0
    THEN [res |-> Panic("attempt to divide by zero"), w |-> declared_width.v,
          whi |-> declared_width.hi, h |-> declared_height.v, hhi |-> declared_height.hi,
          grown |-> FALSE]
    ELSE Only({
         IF overflow_checks /\ frames_available.over
         THEN [res |-> Panic("attempt to add or multiply with overflow"),
               w |-> declared_width.v, whi |-> declared_width.hi,
               h |-> declared_height.v, hhi |-> declared_height.hi, grown |-> FALSE]
         ELSE Only({
              Only({
              IF grown /\ overflow_checks /\ (w.over \/ h.over)
              THEN [res |-> Panic("attempt to add or multiply with overflow"),
                    w |-> declared_width.v, whi |-> declared_width.hi,
                    h |-> declared_height.v, hhi |-> declared_height.hi, grown |-> TRUE]
              ELSE [res |-> IF TooLarge(w, h) THEN ErrWide("TooManyIconStates", w, h) ELSE Ok,
                    w |-> w.v, whi |-> w.hi, h |-> h.v, hhi |-> h.hi, grown |-> grown] :
              w \in {IF grown THEN GrownWidth(icon_width, icon_height, needed)
                     ELSE declared_width},
              h \in {IF grown THEN GrownHeight(icon_width, icon_height, needed)
                     ELSE declared_height}}) :
              grown \in {MustGrow(needed, frames_available)}}) :
         frames_available \in {u32_mul(u32_div(declared_width, icon_width),
                                       u32_div(declared_height, icon_height))}}) :
    icon_width \in {U32(0, dmi.width)}, icon_height \in {U32(0, dmi.height)},
    needed \in {frames_needed(dmi)}})

\* --------------------------------------------------------- compile: painting
\* The two nested loops of paint_frames writing one decoded frame at the cursor,
\* pixel after pixel in row-major order.  Indexing the frame data past its end
\* panics, and so does put_pixel outside the buffer; the pixel the loops reach
\* first decides which, and at one pixel the data is indexed first.
\* The first pixel (0-based, row-major) whose bytes the data does not hold.
FirstShort(data, icon_width, icon_height) ==
    IF Len(data) \div BytesPerPixel < icon_width * icon_height
    THEN Len(data) \div BytesPerPixel
    ELSE icon_width * icon_height

\* The first pixel (0-based, row-major) that lies outside the buffer.
FirstOutside(img, cx, cy, icon_width, icon_height) ==
    IF cx >= img.width \/ cy >= img.height THEN 0
    ELSE IF cx + icon_width > img.width THEN img.width - cx
    ELSE IF cy + icon_height > img.height THEN (img.height - cy) * icon_width
    ELSE icon_width * icon_height

PutFrame(img, data, cx, cy, icon_width, icon_height) ==
    LET short == FirstShort(data, icon_width, icon_height)
        outside == FirstOutside(img, cx, cy, icon_width, icon_height)
    IN IF short >= icon_width * icon_height /\ outside >= icon_width * icon_height
       THEN [res |-> Ok,
             img |-> IF icon_width = 0 \/ icon_height = 0 THEN img
                     ELSE [img EXCEPT !.blocks = Append(@,
                              [x |-> cx, y |-> cy, w |-> icon_width, h |-> icon_height,
                               data |-> data])]]
       ELSE IF short <= outside
       THEN [res |-> Panic("index out of bounds"), img |-> img]
       ELSE [res |-> Panic("put_pixel out of bounds"), img |-> img]

\* (variant) the next row one frame width further down.
NextCursorRowByWidth(cx, cy, icon_width, icon_height, image_width) ==
    IF cx + icon_width >= image_width
    THEN [x |-> 0, y |-> cy + icon_width]
    ELSE [x |-> cx + icon_width, y |-> cy]

\* paint_frames updating the cursor after a frame: one frame to the right,
\* and to the start of the next row once the cursor has reached the width.
NextCursor(cx, cy, icon_width, icon_height, image_width) ==
    IF cx + icon_width >= image_width
    THEN [x |-> 0, y |-> cy + icon_height]
    ELSE [x |-> cx + icon_width, y |-> cy]

\* The inner loop of paint_frames over the frames of one state, from frame k.
\* st is the loop's state: the outcome so far, the canvas, the cursor and the
\* slots painted so far.
RECURSIVE PaintLoop(_, _, _, _, _)
PaintLoop(frames, k, st, state_index, dmi) ==
    IF k > Len(frames) \/ st.res # Ok THEN st
    ELSE IF st.y >= st.img.height THEN [st EXCEPT !.res = Err("TooManyFrames")]
    ELSE LET dec == decode_frame(frames[k])
         IN IF dec.res # Ok THEN [st EXCEPT !.res = dec.res]
            ELSE LET put == PutFrame(st.img, dec.bytes, st.x, st.y, dmi.width, dmi.height)
                     cur == NextCursor(st.x, st.y, dmi.width, dmi.height, st.img.width)
                 IN IF put.res # Ok THEN [st EXCEPT !.res = put.res]
                    ELSE PaintLoop(frames, k + 1,
                            [res |-> Ok, img |-> put.img, x |-> cur.x, y |-> cur.y,
                             slots |-> Append(st.slots,
                                 [state |-> state_index, frame |-> k, x |-> st.x, y |-> st.y])],
                            state_index, dmi)

\* (variant) accepting more frames than declared.
CountAtLeast(expected_frames, actual_frames) == expected_frames <= actual_frames

\* Whether the frames found under a state's name are as many as declared.
CountMatches(expected_frames, actual_frames) == expected_frames = actual_frames

\* (variant) the frames painted first and counted afterwards.
PaintStateThenCount(value, state_index, dmi, img, cx, cy, slots) ==
    LET state == dmi.states[state_index]
        start == [res |-> Ok, img |-> img, x |-> cx, y |-> cy, slots |-> slots]
        got == get_icon_state_frames(value)
        expected_frames == state.dirs * state.frames
        actual_frames == Len(got.frames)
        painted == PaintLoop(got.frames, 1, start, state_index, dmi)
    IN IF got.res # Ok THEN [start EXCEPT !.res = got.res]
       ELSE IF painted.res = Ok /\ ~CountMatches(expected_frames, actual_frames)
       THEN [painted EXCEPT !.res = ErrWith("FrameCountMismatch", state.name,
                                             expected_frames, actual_frames)]
       ELSE painted

\* One iteration of the outer loop of paint_frames: the state's frames are
\* read from the container, counted, and painted.
PaintState(value, state_index, dmi, img, cx, cy, slots) ==
    LET state == dmi.states[state_index]
        start == [res |-> Ok, img |-> img, x |-> cx, y |-> cy, slots |-> slots]
        got == get_icon_state_frames(value)
        expected_frames == state.dirs * state.frames
        actual_frames == Len(got.frames)
    IN IF got.res # Ok THEN [start EXCEPT !.res = got.res]
       ELSE IF ~CountMatches(expected_frames, actual_frames)
       THEN [start EXCEPT !.res = ErrWith("FrameCountMismatch", state.name,
                                           expected_frames, actual_frames)]
       ELSE PaintLoop(got.frames, 1, start, state_index, dmi)

\* ------------------------------------------------------ decompile: reading
\* extract_pixel_data: the RGBA bytes of one tile, rows outermost, then
\* columns, then the four channels.  get_pixel outside the image panics.
extract_pixel_data(img, tile_x, tile_y, tile_width, tile_height) ==
    IF \E x \in tile_x..(tile_x + tile_width - 1), y \in tile_y..(tile_y + tile_height - 1) :
           ~InBounds(img, x, y)
    THEN [res |-> Panic("get_pixel out of bounds"), bytes |-> <<>>]
    ELSE [res |-> Ok,
          bytes |-> [i \in 1..(tile_width * tile_height * BytesPerPixel) |->
              LET n == (i - 1) \div BytesPerPixel
                  x == tile_x + (n % tile_width)
                  y == tile_y + (n \div tile_width)
              IN get_pixel(img, x, y)[((i - 1) % BytesPerPixel) + 1]]]

\* (variant) wrapping only once the cursor is past the width.
NextTileLateWrap(cx, cy, icon_width, icon_height, image_width) ==
    IF cx + icon_width > image_width
    THEN [x |-> 0, y |-> cy + icon_height]
    ELSE [x |-> cx + icon_width, y |-> cy]

\* extract_icon_states updating its own cursor after a tile.
NextTile(cx, cy, icon_width, icon_height, image_width) ==
    IF cx + icon_width >= image_width
    THEN [x |-> 0, y |-> cy + icon_height]
    ELSE [x |-> cx + icon_width, y |-> cy]

\* The loop of extract_icon_states over the frames of one state, from frame k.
RECURSIVE ExtractLoop(_, _, _, _, _)
ExtractLoop(num_frames, k, st, state_index, dmi) ==
    IF k > num_frames \/ st.res # Ok THEN st
    ELSE LET got == extract_pixel_data(st.img, st.x, st.y, dmi.width, dmi.height)
             cur == NextTile(st.x, st.y, dmi.width, dmi.height, st.img.width)
         IN IF got.res # Ok THEN [st EXCEPT !.res = got.res]
            ELSE ExtractLoop(num_frames, k + 1,
                    [res |-> Ok, img |-> st.img, x |-> cur.x, y |-> cur.y,
                     icon_frames |-> Append(st.icon_frames, stringify_pixel_data(got.bytes)),
                     slots |-> Append(st.slots,
                         [state |-> state_index, frame |-> k, x |-> st.x, y |-> st.y])],
                    state_index, dmi)

\* One iteration of the outer loop of extract_icon_states.
ExtractState(state_index, dmi, img, cx, cy, slots) ==
    LET state == dmi.states[state_index]
        num_frames == state.frames * state.dirs
    IN ExtractLoop(num_frames, 1,
           [res |-> Ok, img |-> img, x |-> cx, y |-> cy, icon_frames |-> <<>>, slots |-> slots],
           state_index, dmi)

\* (variant) a known key keeps its value.
insert_if_absent(map, key, value) ==
    IF \E i \in 1..Len(map) : map[i].key = key
    THEN map
    ELSE Append(map, [key |-> key, value |-> value])

\* IndexMap::insert: a new key goes last, a known key keeps its place and
\* takes the new value.
insert(map, key, value) ==
    IF \E i \in 1..Len(map) : map[i].key = key
    THEN [i \in 1..Len(map) |-> IF map[i].key = key THEN [key |-> key, value |-> value] ELSE map[i]]
    ELSE Append(map, [key |-> key, value |-> value])

\* ------------------------------------------------------------------- inputs
\* The files the tool is run on.  Frame contents are a pattern that tells
\* every frame and every byte position apart.
FrameBytes(seed, len) == [i \in 1..len |-> (seed * 37 + i * 5) % 251]

\* The states of a document of n states, unnamed: dirs out of DirChoices,
\* frames 0 or the largest value.
DocStates(n) ==
    {sts \in [1..n -> [name : {<<>>}, dirs : DirChoices, frames : {0, MaxFrames}]] :
        TRUE}

NamedStates(sts) == [i \in 1..Len(sts) |-> [sts[i] EXCEPT !.name = StateNames[i]]]

\* The example of the metadata format: one state "idle", dirs = 4, frames = 1,
\* frames of 32 x 32 (written out, or left to the default).
ExampleStates == <<[name |-> <<"i", "d", "l", "e">>, dirs |-> 4, frames |-> 1]>>

MetadataTexts ==
    {MetadataText(TRUE, FALSE, <<w>>, <<h>>, NamedStates(sts)) :
        w \in IconSizes, h \in IconSizes, sts \in UNION {DocStates(n) : n \in 0..MaxStates}}
    \cup {MetadataText(TRUE, FALSE, <<>>, <<>>, ExampleStates),
          MetadataText(TRUE, FALSE, <<0>>, <<1>>, ExampleStates),
          MetadataText(TRUE, TRUE, <<>>, <<>>, ExampleStates),
          MetadataText(FALSE, FALSE, <<>>, <<>>, <<>>)}

\* What the container may hold under __dmi_metadata.
MetadataValues == {YAbsent, YOther} \cup {YStr(text) : text \in MetadataTexts}

\* What the container may hold under __image_width and __image_height; the
\* last is 2^32 + 32.
DimensionValues(d) ==
    {YAbsent, YOther, YWide(2, 32)}
    \cup {YInt(n) : n \in (IF d.width \in IconSizes /\ d.height \in IconSizes
                           THEN DeclSizes ELSE ExampleDeclSizes)}

\* Frame lists offered under a state's name when the metadata declares n
\* frames of `len` bytes: as many sound frames as declared; and, in an
\* irregular container, one fewer or one more, or the last frame string unsound.
SoundFrame(seed, len) == <<Transport(TRUE, TRUE, FrameBytes(seed, len))>>

UnsoundFrames(seed, len) ==
    {<<>>,
     <<Transport(FALSE, FALSE, <<>>)>>,
     <<Transport(TRUE, FALSE, <<>>)>>,
     <<Transport(TRUE, TRUE, FrameBytes(seed, len + BytesPerPixel))>>}
    \cup (IF len >= BytesPerPixel
          THEN {<<Transport(TRUE, TRUE, FrameBytes(seed, len - BytesPerPixel))>>}
          ELSE {})

SoundFrames(m, seed, len) == [j \in 1..m |-> SoundFrame(seed + j, len)]

IrregularFrameLists(n, seed, len) ==
    {SoundFrames(m, seed, len) : m \in {k \in {n - 1, n + 1} : k >= 0}}
    \cup {[SoundFrames(n, seed, len) EXCEPT ![p] = bad] :
            p \in {q \in {n} : q >= 1}, bad \in UnsoundFrames(seed + n, len)}
    \cup {[SoundFrames(m, seed, len) EXCEPT ![1] = <<Transport(FALSE, FALSE, <<>>)>>] :
            m \in {k \in {n - 1, n + 1} : k >= 1}}

Irregular(container) ==
    /\ container[IMAGE_WIDTH_KEY].n \in IrregularDeclSizes
    /\ container[IMAGE_HEIGHT_KEY].n = container[IMAGE_WIDTH_KEY].n

StateValues(container, n, seed, len) ==
    {YStr(join(SoundFrames(n, seed, len)))}
    \cup (IF Irregular(container)
          THEN {YAbsent, YOther} \cup {YStr(join(fl)) : fl \in IrregularFrameLists(n, seed, len)}
          ELSE {})

\* Images a .dmi file may hold when it was not written by compile: blank ones,
\* and one of 3 x 3 whose pixels all differ.
ImageSizes == {0, 2, 3}
SourceImages ==
    {new_rgba8(w, h) : w \in ImageSizes, h \in ImageSizes}
    \cup {[width |-> 3, height |-> 3,
           blocks |-> <<[x |-> 0, y |-> 0, w |-> 3, h |-> 3,
                         data |-> FrameBytes(5, 9 * BytesPerPixel)]>>]}

\* Metadata texts a .dmi file may hold: those above, and documents of
\* MaxStates states of 1 x 1 frames that all have the same name.
SourceTexts ==
    MetadataTexts
    \cup {MetadataText(TRUE, FALSE, <<1>>, <<1>>,
                       [i \in 1..MaxStates |-> [sts[i] EXCEPT !.name = StateNames[1]]]) :
            sts \in DocStates(MaxStates)}

\* -------------------------------------------------------------------- state
VARIABLES
    pc,           \* the step the running invocation is at ("call": none is running)
    cmd,          \* the subcommand running: "compile" or "decompile"
    result,       \* what the invocation returned to main, or Running
    yaml,         \* the container's entries read so far, key -> value
    dmi,          \* the parsed metadata
    dims,         \* what get_image_dimensions computed
    image,        \* the canvas (compile) or the decoded image (decompile)
    cursor_x,     \* the cursor of the walk in progress
    cursor_y,
    state_index,  \* the state the walk in progress is at (1-based)
    paint_slots,  \* the frames paint_frames has written, in order
    out_dmi,      \* the .dmi file at compile's output path
    source_text,  \* the metadata text read_metadata found in the .dmi file
    icon_states,  \* the Vec<IconStatePixels> extract_icon_states has built
    extract_slots,\* the tiles extract_icon_states has read, in order
    out_yml,      \* the .dmi.yml file at decompile's output path
    unused,       \* the keys compile has warned of as unused
    call,         \* a function of the program applied on its own, and its argument
    returned      \* what that function returned: <<>> before, <<value>> after

vars == <<pc, cmd, result, yaml, dmi, dims, image, cursor_x, cursor_y, state_index,
          paint_slots, out_dmi, source_text, icon_states, extract_slots, out_yml,
          unused, call, returned>>

NoDims == [w |-> 0, h |-> 0, grown |-> FALSE, whi |-> 0, hhi |-> 0]
EmptyMap == [k \in {} |-> YAbsent]

NoCall == [fn |-> "none", of |-> "none", doc |-> <<>>, arg |-> <<>>]

\* Nothing read, parsed, painted or written yet.
Fresh ==
    /\ cmd = "none"
    /\ result = Running
    /\ yaml = EmptyMap
    /\ dmi = NoDmi
    /\ dims = NoDims
    /\ image = NoImage
    /\ cursor_x = 0
    /\ cursor_y = 0
    /\ state_index = 0
    /\ paint_slots = <<>>
    /\ out_dmi = [exists |-> FALSE, complete |-> FALSE, image |-> NoImage, text |-> NoText]
    /\ source_text = NoText
    /\ icon_states = <<>>
    /\ extract_slots = <<>>
    /\ out_yml = [exists |-> FALSE, complete |-> FALSE, data |-> <<>>]
    /\ unused = {}

\* The state an invocation of the tool starts in.
Start == pc = "start" /\ Fresh

Init ==
    /\ Start
    /\ call = NoCall
    /\ returned = <<>>

\* The invocation returns r to main.
Return(r) == result' = r /\ pc' = "done"

\* yaml.get(key), the value being drawn from `offered` on the first read.
Read(key, offered) == IF key \in DOMAIN yaml THEN {yaml[key]} ELSE offered
Remember(key, value) ==
    [k \in DOMAIN yaml \cup {key} |-> IF k = key THEN value ELSE yaml[k]]

\* ------------------------------------------------------------------ compile
\* Entries of a container under keys that are neither reserved nor the name
\* of a state of any document: none, or a frame list left over from a state
\* that is no longer declared.
UnusedEntries ==
    {EmptyMap, [k \in {<<"o", "l", "d">>} |-> YStr(SoundFrame(99, BytesPerPixel))]}

\* (variant) the reserved keys not put aside.
warn_for_unreferenced_keys(keys, d) ==
    keys \ {d.states[i].name : i \in 1..Len(d.states)}

\* warn_for_unused_icon_states: the keys it prints, none when it prints nothing.
warn_for_unused_icon_states(keys, d) ==
    (keys \ ICONTOOL_KEYS) \ {d.states[i].name : i \in 1..Len(d.states)}

\* compile: File::open and serde_yml::from_reader.  The entries of the
\* container that compile looks up are drawn when it does; the others are
\* there from the start.
compile_read_yaml ==
    /\ pc = "start"
    /\ cmd' = "compile"
    /\ \E outcome \in {Ok, Err("Io"), Err("Serialize")} :
          IF outcome = Ok
          THEN pc' = "compile_parse" /\ result' = result /\ yaml' \in UnusedEntries
          ELSE Return(outcome) /\ yaml' = yaml
    /\ UNCHANGED <<dmi, dims, image, cursor_x, cursor_y, state_index, paint_slots,
                   out_dmi, source_text, icon_states, extract_slots, out_yml>>
    /\ UNCHANGED <<unused, call, returned>>

\* compile: get_string(DMI_METADATA_KEY) and parse_metadata.
compile_parse_metadata ==
    /\ pc = "compile_parse"
    /\ \E value \in Read(DMI_METADATA_KEY, MetadataValues) :
          LET yaml_metadata == get_string(value)
              parsed == parse_metadata(yaml_metadata.v)
          IN /\ yaml' = Remember(DMI_METADATA_KEY, value)
             /\ IF yaml_metadata.res # Ok THEN Return(yaml_metadata.res) /\ dmi' = dmi
                ELSE IF parsed.res # Ok THEN Return(parsed.res) /\ dmi' = dmi
                ELSE pc' = "compile_dimensions" /\ result' = result /\ dmi' = parsed.dmi
    /\ UNCHANGED <<cmd, dims, image, cursor_x, cursor_y, state_index, paint_slots,
                   out_dmi, source_text, icon_states, extract_slots, out_yml>>
    /\ UNCHANGED <<unused, call, returned>>

\* compile: get_image_dimensions, DynamicImage::new_rgba8 and
\* warn_for_unused_icon_states (which only prints).
compile_get_image_dimensions ==
    /\ pc = "compile_dimensions"
    /\ \E wv \in Read(IMAGE_WIDTH_KEY, DimensionValues(dmi)) :
          LET image_width == get_u32(wv)
          IN IF image_width.res # Ok
             THEN /\ Return(image_width.res)
                  /\ yaml' = Remember(IMAGE_WIDTH_KEY, wv)
                  /\ UNCHANGED <<dims, image, state_index>>
             ELSE \E hv \in Read(IMAGE_HEIGHT_KEY, DimensionValues(dmi)) :
                  \E image_height \in {get_u32(hv)}, overflow_checks \in BOOLEAN :
                  \E got \in {get_image_dimensions(U32(image_width.hi, image_width.v),
                                                   U32(image_height.hi, image_height.v),
                                                   dmi, overflow_checks)} :
                     /\ yaml' = [k \in DOMAIN yaml \cup {IMAGE_WIDTH_KEY, IMAGE_HEIGHT_KEY} |->
                                   IF k = IMAGE_WIDTH_KEY THEN wv
                                   ELSE IF k = IMAGE_HEIGHT_KEY THEN hv ELSE yaml[k]]
                     /\ IF image_height.res # Ok
                        THEN Return(image_height.res) /\ UNCHANGED <<dims, image, state_index>>
                        ELSE /\ dims' = [w |-> got.w, h |-> got.h, grown |-> got.grown,
                                          whi |-> got.whi, hhi |-> got.hhi]
                             /\ IF got.res # Ok
                                THEN Return(got.res) /\ UNCHANGED <<image, state_index>>
                                ELSE /\ image' = new_rgba8(got.w, got.h)
                                     /\ state_index' = 1
                                     /\ pc' = "compile_paint"
                                     /\ result' = result
    /\ unused' = IF pc' = "compile_paint"
                 THEN warn_for_unused_icon_states(DOMAIN yaml', dmi)
                 ELSE unused
    /\ UNCHANGED <<cmd, dmi, cursor_x, cursor_y, paint_slots,
                   out_dmi, source_text, icon_states, extract_slots, out_yml>>
    /\ UNCHANGED <<call, returned>>

\* paint_frames: one iteration of its loop over the states.
compile_paint_state ==
    /\ pc = "compile_paint"
    /\ state_index <= Len(dmi.states)
    /\ LET state == dmi.states[state_index]
       IN \E value \in Read(state.name,
                            StateValues(yaml, state.dirs * state.frames, 10 * state_index,
                                        dmi.width * dmi.height * BytesPerPixel)) :
              \E st \in {PaintState(value, state_index, dmi, image, cursor_x, cursor_y,
                                    paint_slots)} :
                 /\ yaml' = Remember(state.name, value)
                 /\ image' = st.img
                 /\ cursor_x' = st.x
                 /\ cursor_y' = st.y
                 /\ paint_slots' = st.slots
                 /\ IF st.res # Ok THEN Return(st.res) /\ state_index' = state_index
                    ELSE state_index' = state_index + 1 /\ UNCHANGED <<pc, result>>
    /\ UNCHANGED <<cmd, dmi, dims, out_dmi, source_text, icon_states, extract_slots, out_yml>>
    /\ UNCHANGED <<unused, call, returned>>

\* (variant) the file written while the last state is still to be painted.
compile_write_dmi_file_early ==
    /\ pc = "compile_paint"
    /\ state_index >= Len(dmi.states)
    /\ \E outcome \in {"path", "create", "encode", "written"} :
          /\ out_dmi' = IF outcome \in {"path", "create"} THEN out_dmi
                        ELSE [exists |-> TRUE, complete |-> outcome = "written",
                              image |-> IF outcome = "written" THEN image ELSE NoImage,
                              text |-> IF outcome = "written" THEN yaml[DMI_METADATA_KEY].s
                                       ELSE NoText]
          /\ Return(CASE outcome = "path" -> Err("PathError")
                      [] outcome = "create" -> Err("Io")
                      [] outcome = "encode" -> Err("EncodingError")
                      [] OTHER -> Ok)
    /\ UNCHANGED <<cmd, yaml, dmi, dims, image, cursor_x, cursor_y, state_index, paint_slots,
                   source_text, icon_states, extract_slots, out_yml>>
    /\ UNCHANGED <<unused, call, returned>>

\* compile after paint_frames returned Ok: get_output_path and write_dmi_file.
\* File::create leaves a file at the path; an encoder or I/O error after it
\* leaves that file incomplete.
compile_write_dmi_file ==
    /\ pc = "compile_paint"
    /\ state_index > Len(dmi.states)
    /\ \E outcome \in {"path", "create", "encode", "written"} :
          /\ out_dmi' = IF outcome \in {"path", "create"} THEN out_dmi
                        ELSE [exists |-> TRUE, complete |-> outcome = "written",
                              image |-> IF outcome = "written" THEN image ELSE NoImage,
                              text |-> IF outcome = "written" THEN yaml[DMI_METADATA_KEY].s
                                       ELSE NoText]
          /\ Return(CASE outcome = "path" -> Err("PathError")
                      [] outcome = "create" -> Err("Io")
                      [] outcome = "encode" -> Err("EncodingError")
                      [] OTHER -> Ok)
    /\ UNCHANGED <<cmd, yaml, dmi, dims, image, cursor_x, cursor_y, state_index, paint_slots,
                   source_text, icon_states, extract_slots, out_yml>>
    /\ UNCHANGED <<unused, call, returned>>

\* ---------------------------------------------------------------- decompile
\* decompile: read_image, on a .dmi file of any origin or on the file a
\* finished compile has written.
decompile_read_image ==
    /\ \/ pc = "start"
       \/ pc = "done" /\ cmd = "compile" /\ out_dmi.complete
    /\ cmd' = "decompile"
    /\ \E outcome \in (IF out_dmi.complete THEN {Ok} ELSE {Ok, Err("Io"), Err("ImageError")}) :
          IF outcome # Ok THEN Return(outcome) /\ image' = image
          ELSE /\ pc' = "decompile_metadata"
               /\ result' = Running
               /\ \E img \in (IF out_dmi.complete THEN {out_dmi.image} ELSE SourceImages) :
                     image' = img
    /\ UNCHANGED <<yaml, dmi, dims, cursor_x, cursor_y, state_index, paint_slots,
                   out_dmi, source_text, icon_states, extract_slots, out_yml>>
    /\ UNCHANGED <<unused, call, returned>>

\* decompile: read_metadata and parse_metadata.
decompile_read_metadata ==
    /\ pc = "decompile_metadata"
    /\ \E found \in (IF out_dmi.complete THEN {"text"} ELSE {"text", "no chunk", "undecodable"}) :
          IF found # "text"
          THEN /\ Return(IF found = "no chunk" THEN Err("MissingMetadata") ELSE Err("DecodingError"))
               /\ UNCHANGED <<dmi, source_text, cursor_x, cursor_y, state_index>>
          ELSE \E text \in (IF out_dmi.complete THEN {out_dmi.text} ELSE SourceTexts) :
               LET parsed == parse_metadata(text)
               IN /\ source_text' = text
                  /\ IF parsed.res # Ok
                     THEN Return(parsed.res) /\ UNCHANGED <<dmi, cursor_x, cursor_y, state_index>>
                     ELSE /\ dmi' = parsed.dmi
                          /\ cursor_x' = 0
                          /\ cursor_y' = 0
                          /\ state_index' = 1
                          /\ pc' = "decompile_extract"
                          /\ result' = result
    /\ UNCHANGED <<cmd, yaml, dims, image, paint_slots, out_dmi, icon_states, extract_slots,
                   out_yml>>
    /\ UNCHANGED <<unused, call, returned>>

\* extract_icon_states: one iteration of its loop over the states.
decompile_extract_state ==
    /\ pc = "decompile_extract"
    /\ state_index <= Len(dmi.states)
    /\ \E state \in {dmi.states[state_index]},
          st \in {ExtractState(state_index, dmi, image, cursor_x, cursor_y, extract_slots)} :
          /\ cursor_x' = st.x
          /\ cursor_y' = st.y
          /\ extract_slots' = st.slots
          /\ IF st.res # Ok
             THEN Return(st.res) /\ UNCHANGED <<state_index, icon_states>>
             ELSE /\ icon_states' = Append(icon_states,
                                      [key |-> state.name, value |-> YStr(join(st.icon_frames))])
                  /\ state_index' = state_index + 1
                  /\ UNCHANGED <<pc, result>>
    /\ UNCHANGED <<cmd, yaml, dmi, dims, image, paint_slots, out_dmi, source_text, out_yml>>
    /\ UNCHANGED <<unused, call, returned>>

\* The IndexMap decompile_icon returns.
RECURSIVE InsertAll(_, _)
InsertAll(map, entries) ==
    IF entries = <<>> THEN map
    ELSE InsertAll(insert(map, Head(entries).key, Head(entries).value), Tail(entries))

decompile_icon(img, text, states) ==
    LET d1 == insert(<<>>, DMI_PATH_KEY, YStr(<<>>))
        d2 == insert(d1, IMAGE_WIDTH_KEY, YInt(img.width))
        d3 == insert(d2, IMAGE_HEIGHT_KEY, YInt(img.height))
        d4 == InsertAll(d3, states)
    IN insert(d4, DMI_METADATA_KEY, YStr(text))

\* decompile after extract_icon_states returned: the rest of decompile_icon,
\* File::create and serde_yml::to_writer.
decompile_write_yaml ==
    /\ pc = "decompile_extract"
    /\ state_index > Len(dmi.states)
    /\ \E outcome \in {"create", "serialize", "written"} :
          /\ out_yml' = IF outcome = "create" THEN out_yml
                        ELSE [exists |-> TRUE, complete |-> outcome = "written",
                              data |-> IF outcome = "written"
                                       THEN decompile_icon(image, source_text, icon_states)
                                       ELSE <<>>]
          /\ Return(CASE outcome = "create" -> Err("Io")
                      [] outcome = "serialize" -> Err("Serialize")
                      [] OTHER -> Ok)
    /\ UNCHANGED <<cmd, yaml, dmi, dims, image, cursor_x, cursor_y, state_index, paint_slots,
                   out_dmi, source_text, icon_states, extract_slots>>
    /\ UNCHANGED <<unused, call, returned>>

Next ==
    \/ compile_read_yaml
    \/ compile_parse_metadata
    \/ compile_get_image_dimensions
    \/ compile_paint_state
    \/ compile_write_dmi_file
    \/ decompile_read_image
    \/ decompile_read_metadata
    \/ decompile_extract_state
    \/ decompile_write_yaml

Spec == Init /\ [][Next]_vars

\* ------------------------------------------------ functions on their own
\* parse_metadata, get_icon_state_frames and get_u32 applied to one argument.
tool_vars == <<pc, cmd, result, yaml, dmi, dims, image, cursor_x, cursor_y, state_index,
               paint_slots, out_dmi, source_text, icon_states, extract_slots, out_yml,
               unused>>

\* A metadata text given line by line: what follows "version = ", what
\* follows "\twidth = " and "\theight = " where the line is there (a sequence of
\* zero or one token), the state blocks (the name and the property lines),
\* whether the END tag is there, and what follows it.
Line(name, value) == [name |-> name, value |-> value]
Block(name, lines) == [name |-> name, lines |-> lines]
Lines(version, w, h, blocks, end, trailing) ==
    [version |-> version, width |-> w, height |-> h, blocks |-> blocks, end |-> end,
     trailing |-> trailing]

RECURSIVE PropertyLines(_)
PropertyLines(lines) ==
    IF lines = <<>> THEN <<>>
    ELSE <<"\t">> \o Head(lines).name \o <<" ", "=", " ">> \o Head(lines).value \o <<"\n">>
         \o PropertyLines(Tail(lines))

RECURSIVE BlockTexts(_)
BlockTexts(blocks) ==
    IF blocks = <<>> THEN <<>>
    ELSE <<"s", "t", "a", "t", "e", " ", "=", " ">> \o <<"\"">> \o Escaped(Head(blocks).name) \o <<"\"", "\n">>
         \o PropertyLines(Head(blocks).lines) \o BlockTexts(Tail(blocks))

TextOf(doc) ==
    <<"#", " ", "B", "E", "G", "I", "N", " ", "D", "M", "I", "\n">>
    \o <<"v", "e", "r", "s", "i", "o", "n", " ", "=", " ">> \o doc.version \o <<"\n">>
    \o (IF doc.width = <<>> THEN <<>> ELSE <<"\t", "w", "i", "d", "t", "h", " ", "=", " ">> \o doc.width[1] \o <<"\n">>)
    \o (IF doc.height = <<>> THEN <<>> ELSE <<"\t", "h", "e", "i", "g", "h", "t", " ", "=", " ">> \o doc.height[1] \o <<"\n">>)
    \o BlockTexts(doc.blocks)
    \o (IF doc.end THEN <<"#", " ", "E", "N", "D", " ", "D", "M", "I">> ELSE <<>>)
    \o doc.trailing

\* The property lines of the blocks drawn.
Dirs(value) == Line(<<"d", "i", "r", "s">>, value)
Frames(value) == Line(<<"f", "r", "a", "m", "e", "s">>, value)
Stray == Line(<<"i", "c", "o", "n">>, <<"7">>)
Optional ==
    <<Line(<<"d", "e", "l", "a", "y">>, <<"1", ",", "2">>), Line(<<"h", "o", "t", "s", "p", "o", "t">>, <<"1", ",", "2", ",", "3">>), Line(<<"l", "o", "o", "p">>, <<"0">>),
      Line(<<"m", "o", "v", "e", "m", "e", "n", "t">>, <<"1">>), Line(<<"r", "e", "w", "i", "n", "d">>, <<"0">>)>>

CompleteLines ==
    {<<Dirs(<<"4">>), Frames(<<"1">>)>>,
     <<Frames(<<"2">>), Dirs(<<"1">>)>>,
     <<Dirs(<<"4">>), Frames(<<"1">>)>> \o Optional}
LackingLines ==
    {<<Frames(<<"1">>)>>, <<Dirs(<<"4">>)>>, <<>>, Optional}
StrayLines ==
    {<<Stray, Dirs(<<"4">>), Frames(<<"1">>)>>,
     <<Dirs(<<"4">>), Stray, Frames(<<"1">>)>>,
     <<Dirs(<<"4">>), Frames(<<"1">>), Stray>>,
     <<Stray>>}
NotNumberLines ==
    {<<Dirs(<<"4", "a">>), Frames(<<"1">>)>>,
     <<Dirs(<<"-", "1">>), Frames(<<"1">>)>>,
     <<Dirs(<<"4">>), Frames(<<"4", "a">>)>>,
     <<Dirs(<<"4">>), Frames(<<"-", "1">>)>>,
     <<Dirs(<<"+", "4">>), Frames(<<"1">>)>>}
BlockLines == CompleteLines \cup LackingLines \cup StrayLines \cup NotNumberLines

\* Names of the blocks, by position: with a double quote inside and a backslash
\* at the end, empty, plain.
QuotedNames == <<<<"a", "\"", "b", "\\">>, <<>>, <<"i", "d", "l", "e">>, <<"w", "a", "l", "k">>>>

BlocksOf(n) ==
    {[k \in 1..n |-> Block(QuotedNames[k], ls[k])] : ls \in [1..n -> BlockLines]}

VersionTokens == {<<"4", ".", "0">>, <<"1", "2", ".", "3", "4">>, <<"4">>, <<"4", ".", "x">>, <<"x", ".", "0">>}
WidthTokens == {<<>>, <<<<"3", "2">>>>, <<<<"7">>>>, <<<<"4", "a">>>>, <<<<"-", "1">>>>}
HeightTokens == {<<>>, <<<<"6", "4">>>>, <<<<"4", "a">>>>, <<<<"-", "1">>>>}
Endings ==
    {[end |-> TRUE, trailing |-> <<>>],
     [end |-> TRUE, trailing |-> <<"\n">>],
     [end |-> TRUE, trailing |-> <<"\n", "e", "x", "t", "r", "a", "\n">>],
     [end |-> TRUE, trailing |-> <<"#", " ", "E", "N", "D", " ", "D", "M", "I">>],
     [end |-> FALSE, trailing |-> <<>>]}

LineDocuments ==
    {Lines(<<"4", ".", "0">>, <<<<"3", "2">>>>, <<<<"3", "2">>>>, blocks, TRUE, <<"\n">>) :
        blocks \in UNION {BlocksOf(n) : n \in 0..MaxStates}}
    \cup {Lines(version, w, h, blocks, ending.end, ending.trailing) :
            version \in VersionTokens, w \in WidthTokens, h \in HeightTokens,
            ending \in Endings, blocks \in BlocksOf(0) \cup {<<Block(<<"i", "d", "l", "e">>, <<Dirs(<<"4">>), Frames(<<"1">>)>>)>>}}

\* A metadata document: the version, the frame size, and the states in order
\* with name, dirs and frames; and its text in the metadata format.
DocumentsOf(n) ==
    {[major |-> v[1], minor |-> v[2], width |-> w, height |-> h,
      states |-> [k \in 1..n |-> [name |-> QuotedNames[k], dirs |-> sts[k][1],
                                  frames |-> sts[k][2]]]] :
        v \in {<<4, 0>>, <<10, 12>>}, w \in {1, 32, 100}, h \in {7, 32},
        sts \in [1..n -> {1, 4, 8} \X {0, 1, 25}]}
Documents == UNION {DocumentsOf(n) : n \in 0..MaxStates}

Render(M) ==
    <<"#", " ", "B", "E", "G", "I", "N", " ", "D", "M", "I", "\n">>
    \o <<"v", "e", "r", "s", "i", "o", "n", " ", "=", " ">> \o ToDecimal(M.major) \o <<".">> \o ToDecimal(M.minor) \o <<"\n">>
    \o <<"\t", "w", "i", "d", "t", "h", " ", "=", " ">> \o ToDecimal(M.width) \o <<"\n">>
    \o <<"\t", "h", "e", "i", "g", "h", "t", " ", "=", " ">> \o ToDecimal(M.height) \o <<"\n">>
    \o StateBlocks(M.states)
    \o <<"#", " ", "E", "N", "D", " ", "D", "M", "I", "\n">>

ParseCalls ==
    {[fn |-> "parse_metadata", of |-> "lines", doc |-> doc, arg |-> TextOf(doc)] :
        doc \in LineDocuments}
    \cup {[fn |-> "parse_metadata", of |-> "document", doc |-> M, arg |-> Render(M)] :
            M \in Documents}

\* Frame strings without a newline, the empty one among them, and the value
\* extract_icon_states stores for a list of them.
FrameStrings ==
    {<<>>, <<Transport(TRUE, TRUE, <<1>>)>>, <<Transport(FALSE, FALSE, <<>>)>>,
     <<Transport(TRUE, FALSE, <<>>), Transport(TRUE, TRUE, <<2>>)>>}
FrameLists == UNION {[1..n -> FrameStrings] : n \in 1..(MaxFrames + 2)}
FramesCalls ==
    {[fn |-> "get_icon_state_frames", of |-> "frames", doc |-> F, arg |-> YStr(join(F))] :
        F \in FrameLists}
    \cup {[fn |-> "get_icon_state_frames", of |-> "value", doc |-> <<>>, arg |-> v] :
            v \in {YAbsent, YOther, YInt(4)}}

\* Values under a dimension key: none, not an integer, negative, and
\* integers up to and beyond u32::MAX.
U32Values ==
    {YAbsent, YOther, YStr(<<>>), YInt(-1)}
    \cup {YWide(hi, n) : hi \in 0..3, n \in {0, 1, 32, 1024, 2147483647}}
U32Calls == {[fn |-> "get_u32", of |-> "value", doc |-> <<>>, arg |-> v] : v \in U32Values}

FunctionInit ==
    /\ pc = "call"
    /\ Fresh
    /\ returned = <<>>
    /\ \/ call \in ParseCalls
       \/ call \in FramesCalls
       \/ call \in U32Calls

call_parse_metadata ==
    /\ call.fn = "parse_metadata"
    /\ returned = <<>>
    /\ returned' = <<parse_metadata(call.arg)>>
    /\ UNCHANGED <<call, tool_vars>>

call_get_icon_state_frames ==
    /\ call.fn = "get_icon_state_frames"
    /\ returned = <<>>
    /\ returned' = <<get_icon_state_frames(call.arg)>>
    /\ UNCHANGED <<call, tool_vars>>

call_get_u32 ==
    /\ call.fn = "get_u32"
    /\ returned = <<>>
    /\ returned' = <<get_u32(call.arg)>>
    /\ UNCHANGED <<call, tool_vars>>

FunctionNext ==
    \/ call_parse_metadata
    \/ call_get_icon_state_frames
    \/ call_get_u32

FunctionSpec == FunctionInit /\ [][FunctionNext]_vars

\* Reading the canvas dimensions: compile up to get_image_dimensions, and
\* get_u32 on its own.
\* Metadata whose layout arithmetic leaves u32: a product dirs * frames of
\* 2^32 and of 2^32 + 2^16, three products adding up to 2^32, 2^31 frames of
\* 1 x 2, three frames of 4 x 2^30 and one frame of 2^16 x 2^16.
OverflowTexts ==
    {MetadataText(TRUE, FALSE, <<>>, <<>>,
                  <<[name |-> StateNames[1], dirs |-> 65536, frames |-> 65536]>>),
     MetadataText(TRUE, FALSE, <<1>>, <<1>>,
                  <<[name |-> StateNames[1], dirs |-> 65537, frames |-> 65536]>>),
     MetadataText(TRUE, FALSE, <<1>>, <<1>>,
                  <<[name |-> StateNames[1], dirs |-> 32768, frames |-> 65535],
                    [name |-> StateNames[2], dirs |-> 32768, frames |-> 65535],
                    [name |-> StateNames[3], dirs |-> 256, frames |-> 256]>>),
     MetadataText(TRUE, FALSE, <<1>>, <<2>>,
                  <<[name |-> StateNames[1], dirs |-> 32768, frames |-> 65536]>>),
     MetadataText(TRUE, FALSE, <<4>>, <<1073741824>>,
                  <<[name |-> StateNames[1], dirs |-> 1, frames |-> 3]>>),
     MetadataText(TRUE, FALSE, <<65536>>, <<65536>>,
                  <<[name |-> StateNames[1], dirs |-> 1, frames |-> 1]>>)}

\* The start of the tool, a call of get_u32, or compile having read a YAML
\* file whose metadata is one of OverflowTexts.
DimensionInit ==
    \/ Init
    \/ pc = "call" /\ Fresh /\ returned = <<>> /\ call \in U32Calls
    \/ /\ pc = "compile_parse"
       /\ cmd = "compile"
       /\ yaml \in {[k \in {DMI_METADATA_KEY} |-> YStr(text)] : text \in OverflowTexts}
       /\ result = Running
       /\ dmi = NoDmi
       /\ dims = NoDims
       /\ image = NoImage
       /\ cursor_x = 0
       /\ cursor_y = 0
       /\ state_index = 0
       /\ paint_slots = <<>>
       /\ out_dmi = [exists |-> FALSE, complete |-> FALSE, image |-> NoImage, text |-> NoText]
       /\ source_text = NoText
       /\ icon_states = <<>>
       /\ extract_slots = <<>>
       /\ out_yml = [exists |-> FALSE, complete |-> FALSE, data |-> <<>>]
       /\ unused = {}
       /\ call = NoCall
       /\ returned = <<>>

DimensionNext ==
    \/ compile_read_yaml
    \/ compile_parse_metadata
    \/ compile_get_image_dimensions
    \/ call_get_u32

DimensionSpec == DimensionInit /\ [][DimensionNext]_vars

\* ------------------------------------------------------------------- claims
\* What the claims read off the state.
DimensionsComputed ==
    /\ IMAGE_HEIGHT_KEY \in DOMAIN yaml
    /\ yaml[IMAGE_WIDTH_KEY].t = "int" /\ yaml[IMAGE_WIDTH_KEY].hi = 0
    /\ yaml[IMAGE_HEIGHT_KEY].t = "int" /\ yaml[IMAGE_HEIGHT_KEY].hi = 0
    /\ dmi.width >= 1
    /\ dmi.height >= 1

DeclaredWidth == yaml[IMAGE_WIDTH_KEY].n
DeclaredHeight == yaml[IMAGE_HEIGHT_KEY].n

\* The sum over the states of dirs * frames, up to state n.
RECURSIVE FramesUpTo(_, _)
FramesUpTo(states, n) ==
    IF n = 0 THEN 0 ELSE FramesUpTo(states, n - 1) + states[n].dirs * states[n].frames

FramesNeeded == FramesUpTo(dmi.states, Len(dmi.states))
FramesAvailable == (DeclaredWidth \div dmi.width) * (DeclaredHeight \div dmi.height)

\* The integer square root, by its defining property.
Isqrt(n) == CHOOSE r \in 0..n : r * r <= n /\ (r + 1) * (r + 1) > n

ReferenceFramesPerRow == (Isqrt(dmi.width * dmi.height * FramesNeeded) \div dmi.width) + 1
ReferenceWidth ==
    IF FramesNeeded < FramesAvailable THEN DeclaredWidth
    ELSE ReferenceFramesPerRow * dmi.width
ReferenceHeight ==
    IF FramesNeeded < FramesAvailable THEN DeclaredHeight
    ELSE ((FramesNeeded \div ReferenceFramesPerRow) + 1) * dmi.height

IsExample ==
    /\ dmi.width = 32
    /\ dmi.height = 32
    /\ Len(dmi.states) = 1
    /\ dmi.states[1].name = <<"i", "d", "l", "e">>
    /\ dmi.states[1].dirs = 4
    /\ dmi.states[1].frames = 1

\* C2: a grown canvas holds strictly more frames than are needed and its
\* dimensions are multiples of the frame size; the example (dirs = 4,
\* frames = 1, 32 x 32 frames) on a declared canvas of 32 x 32 is grown and
\* stays within the maximum dimension.
C2_GrownCanvasLargeEnough ==
    /\ DimensionsComputed /\ dims.grown =>
        /\ (dims.w \div dmi.width) * (dims.h \div dmi.height) > FramesNeeded
        /\ dims.w % dmi.width = 0
        /\ dims.h % dmi.height = 0
    /\ DimensionsComputed /\ IsExample /\ DeclaredWidth = 32 /\ DeclaredHeight = 32 =>
        /\ dims.grown
        /\ (dims.w \div 32) * (dims.h \div 32) > 4
        /\ dims.w <= MAX_IMAGE_WIDTH
        /\ dims.h <= MAX_IMAGE_HEIGHT
        /\ result.err # "TooManyIconStates"

C2_Witness ==
    /\ DimensionsComputed
    /\ IsExample
    /\ DeclaredWidth = 32
    /\ DeclaredHeight = 32
    /\ dims.grown
    /\ pc = "compile_paint"

\* C3: compile fails with the size-limit error exactly when the width or the
\* height of the resulting canvas exceeds MAX_IMAGE_WIDTH / MAX_IMAGE_HEIGHT.
C3_SizeLimitIsMaxImageConstant ==
    DimensionsComputed =>
        ((result.err = "TooManyIconStates")
            <=> (dims.w > MAX_IMAGE_WIDTH \/ dims.h > MAX_IMAGE_HEIGHT))

\* C4: paint_frames never runs out of canvas: TooManyFrames is not returned.
C4_TooManyFramesUnreachable == result.err # "TooManyFrames"

\* A grown canvas has been painted to its last row.
C4_Witness ==
    /\ cmd = "compile"
    /\ pc = "done"
    /\ result = Ok
    /\ dims.grown
    /\ Len(paint_slots) >= 4
    /\ paint_slots[Len(paint_slots)].y + dmi.height = image.height

\* C5: every frame paint_frames writes lies entirely inside the canvas; the
\* walk wraps before a frame would cross the right edge.
C5_FramesInsideCanvas ==
    /\ \A i \in 1..Len(paint_slots) :
          /\ paint_slots[i].x + dmi.width <= image.width
          /\ paint_slots[i].y + dmi.height <= image.height
    /\ ~(result.tag = "Panic" /\ result.err = "put_pixel out of bounds")

\* A decompile is running on the file the compile before it has written.
RoundTrip == cmd = "decompile" /\ out_dmi.complete

FrameLength == dmi.width * dmi.height * BytesPerPixel

\* The number of newline-separated strings in a container value.
SuppliedCount(value) == Cardinality({p \in 1..Len(value.s) : value.s[p].nl}) + 1

\* The slot the n-th frame overall (1-based) belongs to on a canvas k frames wide.
RasterSlot(n, k) ==
    LET s == CHOOSE i \in 1..Len(dmi.states) :
                 FramesUpTo(dmi.states, i - 1) < n /\ n <= FramesUpTo(dmi.states, i)
    IN [state |-> s,
        frame |-> n - FramesUpTo(dmi.states, s - 1),
        x |-> ((n - 1) % k) * dmi.width,
        y |-> ((n - 1) \div k) * dmi.height]

FollowsRaster(slots, width) ==
    dmi.width >= 1 /\ width >= dmi.width /\ width % dmi.width = 0 =>
        /\ Len(slots) <= FramesNeeded
        /\ \A n \in 1..Len(slots) : slots[n] = RasterSlot(n, width \div dmi.width)
        /\ \A n, m \in 1..Len(slots) :
              n # m => slots[n].x # slots[m].x \/ slots[n].y # slots[m].y

\* C6: packing and unpacking agree on frame positions: on the canvas a
\* compile has written, extract_icon_states visits the (state, frame, x, y)
\* that paint_frames visited, in the same order, without leaving the image,
\* and every frame it returns decodes to the pixel block that was painted
\* there, byte for byte in row-major order.
C6_PackUnpackAgree ==
    RoundTrip =>
        /\ result.tag # "Panic"
        /\ Len(extract_slots) <= Len(paint_slots)
        /\ extract_slots = SubSeq(paint_slots, 1, Len(extract_slots))
        /\ (pc = "done" /\ result = Ok => extract_slots = paint_slots)
        /\ \A i \in 1..Len(icon_states) :
              LET packed == split(yaml[dmi.states[i].name].s)
                  unpacked == split(icon_states[i].value.s)
              IN /\ icon_states[i].key = dmi.states[i].name
                 /\ Len(unpacked) = Len(packed)
                 /\ \A k \in 1..Len(packed) :
                       decode_frame(unpacked[k]) =
                           [res |-> Ok,
                            bytes |-> SubSeq(decode_frame(packed[k]).bytes, 1, FrameLength)]

\* A canvas of two rows of 2 x 2 frames has been packed and unpacked.
C6_Witness ==
    /\ RoundTrip
    /\ pc = "done"
    /\ result = Ok
    /\ out_yml.complete
    /\ dmi.width = 2
    /\ dmi.height = 2
    /\ Len(dmi.states) = 2
    /\ Len(extract_slots) >= 4
    /\ extract_slots[Len(extract_slots)].y > 0

\* C7: frame slots follow document order in a left-to-right, top-to-bottom
\* raster: on a canvas k frames wide the N-th frame overall (0-based) is at
\* x = (N mod k) * frame_width, y = (N div k) * frame_height, the states take
\* dirs * frames consecutive slots each in the order of the metadata, and no
\* two frames share a slot; in paint_frames and in extract_icon_states.
C7_SlotsInDocumentRaster ==
    /\ FollowsRaster(paint_slots, dims.w)
    /\ (cmd = "decompile" => FollowsRaster(extract_slots, image.width))
    /\ (cmd = "compile" /\ pc = "done" /\ result = Ok => Len(paint_slots) = FramesNeeded)
    /\ (cmd = "decompile" /\ pc = "done" /\ result = Ok => Len(extract_slots) = FramesNeeded)

\* Two states of frames that are not square have been painted over several rows.
C7_Witness ==
    /\ cmd = "compile"
    /\ pc = "done"
    /\ result = Ok
    /\ dmi.width # dmi.height
    /\ Len(dmi.states) = 2
    /\ paint_slots[Len(paint_slots)].state = 2
    /\ paint_slots[Len(paint_slots)].y > 0
    /\ paint_slots[Len(paint_slots)].x > 0

\* C8: a state whose newline-separated strings are not dirs * frames in number
\* makes paint_frames fail with FrameCountMismatch carrying the state's name,
\* the expected and the supplied count, and none of that state's frames is
\* decoded or written.
C8_FrameCountMismatchReported ==
    cmd = "compile" =>
        \A i \in 1..Len(dmi.states) :
            LET state == dmi.states[i]
            IN (/\ state.name \in DOMAIN yaml
                /\ yaml[state.name].t = "str"
                /\ SuppliedCount(yaml[state.name]) # state.dirs * state.frames)
               => /\ result = ErrWith("FrameCountMismatch", state.name,
                                      state.dirs * state.frames,
                                      SuppliedCount(yaml[state.name]))
                  /\ \A n \in 1..Len(paint_slots) : paint_slots[n].state # i
                  /\ Len(image.blocks) = FramesUpTo(dmi.states, i - 1)
                  /\ ~out_dmi.exists

\* The example: idle declares 4 frames and 3 strings are supplied.
C8_Witness == result = ErrWith("FrameCountMismatch", <<"i", "d", "l", "e">>, 4, 3)

\* C9: a frame that decodes and decompresses to a byte length other than
\* frame_width * frame_height * 4 makes compile return a frame error; the
\* frame is not painted, not truncated, and the process does not abort.
C9_WrongLengthFrameRejected ==
    cmd = "compile" =>
        \A i \in 1..Len(dmi.states) :
            LET state == dmi.states[i]
                frames == split(yaml[state.name].s)
            IN (/\ state.name \in DOMAIN yaml
                /\ yaml[state.name].t = "str"
                /\ Len(frames) = state.dirs * state.frames)
               => \A k \in 1..Len(frames) :
                     (/\ decode_frame(frames[k]).res = Ok
                      /\ Len(decode_frame(frames[k]).bytes) # FrameLength
                      /\ Len(paint_slots) >= FramesUpTo(dmi.states, i - 1) + k - 1)
                     => /\ result.tag = "Err"
                        /\ result.err \in {"DecodeError", "DecompressError"}
                        /\ Len(paint_slots) = FramesUpTo(dmi.states, i - 1) + k - 1

\* C10: no output file is written by a failed conversion: compile creates the
\* .dmi file only after the metadata parsed, the canvas size was accepted and
\* every frame of every state was counted, decoded and painted; decompile
\* creates its file only after the metadata of the image it read parsed; an
\* error before that leaves no file.
C10_OutputOnlyAfterSuccess ==
    /\ out_dmi.exists =>
          /\ DMI_METADATA_KEY \in DOMAIN yaml
          /\ parse_metadata(get_string(yaml[DMI_METADATA_KEY]).v).res = Ok
          /\ DimensionsComputed
          /\ dims.w <= SanityLimit
          /\ dims.h <= SanityLimit
          /\ Len(paint_slots) = FramesNeeded
          /\ \A i \in 1..Len(dmi.states) :
                /\ dmi.states[i].name \in DOMAIN yaml
                /\ yaml[dmi.states[i].name].t = "str"
                /\ SuppliedCount(yaml[dmi.states[i].name])
                       = dmi.states[i].dirs * dmi.states[i].frames
                /\ \A k \in 1..(dmi.states[i].dirs * dmi.states[i].frames) :
                      decode_frame(split(yaml[dmi.states[i].name].s)[k]).res = Ok
    /\ out_yml.exists =>
          /\ cmd = "decompile"
          /\ parse_metadata(source_text).res = Ok
          /\ Len(icon_states) = Len(dmi.states)
    /\ (cmd = "compile" /\ result.tag \in {"Err", "Panic"} /\ result.err # "EncodingError"
            => ~out_dmi.exists)
    /\ (cmd = "decompile" /\ result.tag \in {"Err", "Panic"} /\ result.err # "Serialize"
            => ~out_yml.exists)

\* A compile has failed on its second state, after painting the first.
C10_Witness ==
    /\ cmd = "compile"
    /\ pc = "done"
    /\ result.tag = "Err"
    /\ state_index = 2
    /\ Len(paint_slots) >= 1
    /\ ~out_dmi.exists

\* C11: the example (one state, dirs = 4, frames = 1, frames of 32 x 32) on a
\* declared canvas of 128 x 32, which holds exactly 4 frames, is compiled
\* without growth: the canvas stays 128 x 32 and the frames land at
\* x = 0, 32, 64, 96 with y = 0.
C11_ExactFitNotGrown ==
    DimensionsComputed /\ IsExample /\ DeclaredWidth = 128 /\ DeclaredHeight = 32 =>
        /\ ~dims.grown
        /\ dims.w = 128
        /\ dims.h = 32
        /\ \A n \in 1..Len(paint_slots) :
              paint_slots[n].x = (n - 1) * 32 /\ paint_slots[n].y = 0

\* C12: the dimensions get_image_dimensions returns are exact multiples of
\* the frame size, whether the canvas was grown or the declared size kept.
C12_CanvasMultipleOfFrame ==
    DimensionsComputed /\ result.err # "TooManyIconStates" =>
        /\ dims.w % dmi.width = 0
        /\ dims.h % dmi.height = 0

\* What the claims about parse_metadata say of a text given line by line.
ParsedLines == call.fn = "parse_metadata" /\ call.of = "lines" /\ returned # <<>>
PropertyNames == {<<"d", "e", "l", "a", "y">>, <<"d", "i", "r", "s">>, <<"f", "r", "a", "m", "e", "s">>, <<"h", "o", "t", "s", "p", "o", "t">>, <<"l", "o", "o", "p">>, <<"m", "o", "v", "e", "m", "e", "n", "t">>, <<"r", "e", "w", "i", "n", "d">>}
DigitOnly(token) == token # <<>> /\ \A k \in 1..Len(token) : token[k] \in DigitChars
Blank(text) == \A k \in 1..Len(text) : text[k] \in {" ", "\t", "\n", "\r"}
Named(block, name) == \E k \in 1..Len(block.lines) : block.lines[k].name = name
NumbersDigitOnly(block) ==
    \A k \in 1..Len(block.lines) :
        block.lines[k].name \in {<<"d", "i", "r", "s">>, <<"f", "r", "a", "m", "e", "s">>} => DigitOnly(block.lines[k].value)
KnownNames(block) == \A k \in 1..Len(block.lines) : block.lines[k].name \in PropertyNames
VersionWellFormed(doc) ==
    \E k \in 2..(Len(doc.version) - 1) :
        /\ doc.version[k] = "."
        /\ DigitOnly(SubSeq(doc.version, 1, k - 1))
        /\ DigitOnly(SubSeq(doc.version, k + 1, Len(doc.version)))
HeaderWellFormed(doc) ==
    /\ VersionWellFormed(doc)
    /\ doc.width # <<>> => DigitOnly(doc.width[1])
    /\ doc.height # <<>> => DigitOnly(doc.height[1])
Closed(doc) == doc.end /\ Blank(doc.trailing)
Lacking(block) == ~Named(block, <<"d", "i", "r", "s">>) \/ ~Named(block, <<"f", "r", "a", "m", "e", "s">>)
OtherwiseGrammatical(doc) ==
    /\ HeaderWellFormed(doc)
    /\ Closed(doc)
    /\ \A k \in 1..Len(doc.blocks) : KnownNames(doc.blocks[k]) /\ NumbersDigitOnly(doc.blocks[k])

\* C13: a metadata text that is otherwise grammatical and has a state block
\* without a dirs property or without a frames property makes parse_metadata
\* return an error value; it neither succeeds nor aborts.
C13_MissingFieldIsError ==
    /\ ParsedLines
    /\ OtherwiseGrammatical(call.doc)
    /\ \E k \in 1..Len(call.doc.blocks) : Lacking(call.doc.blocks[k])
    => returned[1].res.tag = "Err"

\* C14: a property line with a name outside delay, dirs, frames, hotspot,
\* loop, movement, rewind in any state block makes parse_metadata return an
\* error for the whole document, wherever the state stands.
C14_UnknownPropertyIsError ==
    /\ ParsedLines
    /\ \E k \in 1..Len(call.doc.blocks) : ~KnownNames(call.doc.blocks[k])
    => returned[1].res.tag = "Err"

\* The text without the white space at its start.
RECURSIVE StripLeft(_)
StripLeft(text) ==
    IF text # <<>> /\ Head(text) \in {" ", "\t", "\n", "\r"} THEN StripLeft(Tail(text)) ELSE text

GrammaticalThroughEnd(doc) ==
    /\ HeaderWellFormed(doc)
    /\ doc.end
    /\ \A k \in 1..Len(doc.blocks) :
          KnownNames(doc.blocks[k]) /\ NumbersDigitOnly(doc.blocks[k]) /\ ~Lacking(doc.blocks[k])

\* C15: input left over after the END tag makes parse_metadata fail with
\* IncompleteParseError carrying the leftover text, neither ParseError nor
\* success; parse_metadata returns Ok only when the whole input was consumed.
C15_LeftoverIsIncompleteParse ==
    ParsedLines =>
        /\ GrammaticalThroughEnd(call.doc) /\ ~Blank(call.doc.trailing) =>
              returned[1].res = ErrWith("IncompleteParseError", StripLeft(call.doc.trailing), 0, 0)
        /\ returned[1].res.tag = "Ok" => call.doc.end /\ Blank(call.doc.trailing)

C15_Witness ==
    /\ ParsedLines
    /\ GrammaticalThroughEnd(call.doc)
    /\ call.doc.trailing = <<"\n", "e", "x", "t", "r", "a", "\n">>
    /\ returned[1].res.err = "IncompleteParseError"
    /\ returned[1].res.name = <<"e", "x", "t", "r", "a", "\n">>

\* C16: a numeric field (dirs, frames, width, height, a version component)
\* that is not a digit-only token makes parse_metadata return the
\* grammar-mismatch error; it neither aborts nor fails in another way.
C16_NotDigitsIsParseError ==
    /\ ParsedLines
    /\ \/ ~HeaderWellFormed(call.doc)
       \/ \E k \in 1..Len(call.doc.blocks) : ~NumbersDigitOnly(call.doc.blocks[k])
    => returned[1].res = Err("ParseError")

\* The number a digit-only token writes.
RECURSIVE Numeral(_)
Numeral(token) ==
    IF token = <<>> THEN 0
    ELSE 10 * Numeral(SubSeq(token, 1, Len(token) - 1))
         + (CHOOSE d \in 0..9 : <<"0", "1", "2", "3", "4", "5", "6", "7", "8", "9">>[d + 1] = token[Len(token)])

ParsedDocument == call.fn = "parse_metadata" /\ call.of = "document" /\ returned # <<>>

VersionOf(text) ==
    LET k == CHOOSE j \in 1..Len(text) : text[j] = "."
    IN <<Numeral(SubSeq(text, 1, k - 1)), Numeral(SubSeq(text, k + 1, Len(text)))>>

\* C17: parse_metadata applied to the text of a metadata document returns
\* the document: the same version, width and height and the same states in
\* order with their name, dirs and frames, also for names with double quotes
\* or backslashes.
C17_ParseOfRenderIsDocument ==
    ParsedDocument =>
        /\ returned[1].res = Ok
        /\ VersionOf(returned[1].dmi.version) = <<call.doc.major, call.doc.minor>>
        /\ returned[1].dmi.width = call.doc.width
        /\ returned[1].dmi.height = call.doc.height
        /\ Len(returned[1].dmi.states) = Len(call.doc.states)
        /\ \A k \in 1..Len(call.doc.states) :
              /\ returned[1].dmi.states[k].name = call.doc.states[k].name
              /\ returned[1].dmi.states[k].dirs = call.doc.states[k].dirs
              /\ returned[1].dmi.states[k].frames = call.doc.states[k].frames

C17_Witness ==
    /\ ParsedDocument
    /\ Len(call.doc.states) = 2
    /\ \E k \in 1..Len(call.doc.states[1].name) : call.doc.states[1].name[k] = "\""
    /\ \E k \in 1..Len(call.doc.states[1].name) : call.doc.states[1].name[k] = "\\"
    /\ call.doc.major = 10
    /\ returned[1].res = Ok
    /\ returned[1].dmi.states[1].name = call.doc.states[1].name

\* C18: width and height default to 32 each on its own: an absent line gives
\* 32, a present line gives its number, also when only one of the two lines
\* is there.
C18_SizeDefaultsIndependent ==
    ParsedLines /\ GrammaticalThroughEnd(call.doc) /\ Blank(call.doc.trailing) =>
        /\ returned[1].res = Ok
        /\ returned[1].dmi.width = IF call.doc.width = <<>> THEN 32 ELSE Numeral(call.doc.width[1])
        /\ returned[1].dmi.height = IF call.doc.height = <<>> THEN 32 ELSE Numeral(call.doc.height[1])

C18_Witness ==
    /\ ParsedLines
    /\ call.doc.width = <<<<"7">>>>
    /\ call.doc.height = <<>>
    /\ returned[1].res = Ok
    /\ returned[1].dmi.width = 7
    /\ returned[1].dmi.height = 32

FramesSplit == call.fn = "get_icon_state_frames" /\ returned # <<>>

\* C19: get_icon_state_frames applied to the frame strings of a non-empty
\* list joined by newlines returns the list; applied to the empty string it
\* returns the one empty string; it never returns an empty list.
C19_SplitOfJoinIsFrames ==
    FramesSplit =>
        /\ call.of = "frames" =>
              returned[1].res = Ok /\ returned[1].frames = call.doc
        /\ call.arg = YStr(<<>>) => returned[1].frames = <<<<>>>>
        /\ returned[1].res = Ok => Len(returned[1].frames) >= 1

C19_Witness ==
    /\ FramesSplit
    /\ call.of = "frames"
    /\ Len(call.doc) = 3
    /\ call.doc[1] # <<>>
    /\ call.doc[2] = <<>>
    /\ call.doc[3] = <<>>
    /\ returned[1].frames = call.doc

\* The integer is greater than 2^32 - 1.
BeyondU32(value) == value.t = "int" /\ value.n >= 0 /\ value.hi >= 2
FitsU32(value) == value.t = "int" /\ value.n >= 0 /\ value.hi <= 1

\* C20: get_u32 returns MissingKey for an absent key, InvalidType for a value
\* that is not an unsigned integer or is greater than 2^32 - 1, and the stored
\* value otherwise; compile on a container whose __image_width or
\* __image_height is greater than 2^32 - 1 fails with InvalidType and computes
\* no dimensions from a truncated value.
C20_DimensionReadAsU32 ==
    /\ call.fn = "get_u32" /\ returned # <<>> =>
          /\ call.arg.t = "absent" => returned[1].res = Err("MissingKey")
          /\ call.arg.t # "absent" /\ ~FitsU32(call.arg) => returned[1].res = Err("InvalidType")
          /\ FitsU32(call.arg) =>
                /\ returned[1].res = Ok
                /\ returned[1].hi = call.arg.hi
                /\ returned[1].v = call.arg.n
    /\ cmd = "compile" =>
          \A key \in {IMAGE_WIDTH_KEY, IMAGE_HEIGHT_KEY} :
              key \in DOMAIN yaml /\ BeyondU32(yaml[key]) =>
                  result = Err("InvalidType") /\ dims = NoDims

C20_Witness ==
    /\ cmd = "compile"
    /\ IMAGE_HEIGHT_KEY \in DOMAIN yaml
    /\ FitsU32(yaml[IMAGE_WIDTH_KEY])
    /\ yaml[IMAGE_HEIGHT_KEY] = YWide(2, 32)
    /\ result = Err("InvalidType")

\* A container without the entries that are under neither a reserved key nor
\* the name of a state.
WithoutUnused(container, d) ==
    [k \in DOMAIN container
           \cap (ICONTOOL_KEYS \cup {d.states[i].name : i \in 1..Len(d.states)}) |->
        container[k]]

EntryOf(container, key) == IF key \in DOMAIN container THEN container[key] ELSE YAbsent

RECURSIVE PaintedFrom(_, _, _, _)
PaintedFrom(container, d, k, st) ==
    IF k > Len(d.states) \/ st.res # Ok THEN st
    ELSE PaintedFrom(container, d, k + 1,
             PaintState(EntryOf(container, d.states[k].name), k, d, st.img, st.x, st.y,
                        st.slots))

\* What compile makes of a container it has read: the result up to the end of
\* paint_frames, the dimensions and the canvas.
CompiledFrom(container) ==
    Only({IF text.res # Ok THEN [res |-> text.res, dims |-> NoDims, img |-> NoImage] ELSE
    Only({IF parsed.res # Ok THEN [res |-> parsed.res, dims |-> NoDims, img |-> NoImage] ELSE
    Only({IF w.res # Ok THEN [res |-> w.res, dims |-> NoDims, img |-> NoImage] ELSE
    Only({IF h.res # Ok THEN [res |-> h.res, dims |-> NoDims, img |-> NoImage] ELSE
    Only({IF got.res # Ok
          THEN [res |-> got.res, dims |-> [w |-> got.w, h |-> got.h, grown |-> got.grown,
                                           whi |-> got.whi, hhi |-> got.hhi],
                img |-> NoImage]
          ELSE Only({[res |-> st.res, dims |-> [w |-> got.w, h |-> got.h, grown |-> got.grown,
                                           whi |-> got.whi, hhi |-> got.hhi],
                      img |-> st.img] :
                     st \in {PaintedFrom(container, parsed.dmi, 1,
                                [res |-> Ok, img |-> new_rgba8(got.w, got.h), x |-> 0, y |-> 0,
                                 slots |-> <<>>])}}) :
          got \in {get_image_dimensions(U32(w.hi, w.v), U32(h.hi, h.v), parsed.dmi, TRUE)}}) :
          h \in {get_u32(EntryOf(container, IMAGE_HEIGHT_KEY))}}) :
          w \in {get_u32(EntryOf(container, IMAGE_WIDTH_KEY))}}) :
          parsed \in {parse_metadata(text.v)}}) :
          text \in {get_string(EntryOf(container, DMI_METADATA_KEY))}})

\* paint_frames has returned Ok.
Painted == state_index > Len(dmi.states)

\* C21: the entries of the container under keys that are neither reserved nor
\* the name of a declared state are only warned of: compile on the container
\* returns the same result, computes the same dimensions and paints the same
\* canvas as on the container without them, and the warning names just them.
C21_UnusedKeysOnlyWarned ==
    cmd = "compile" /\ DMI_METADATA_KEY \in DOMAIN yaml /\ (pc = "done" \/ Painted) =>
        \A without \in {CompiledFrom(WithoutUnused(yaml, dmi))} :
            /\ dims = without.dims
            /\ image = without.img
            /\ (Painted => without.res = Ok)
            /\ (pc = "done" /\ ~Painted => result = without.res)
            /\ (out_dmi.complete => out_dmi.image = without.img)
            /\ (unused # {} => unused = DOMAIN yaml \ DOMAIN WithoutUnused(yaml, dmi))
            /\ (pc = "done" /\ result.tag = "Err" /\ ~Painted /\ without.dims = NoDims
                    => unused = {})

\* A container with an unused entry has been compiled to a file of several
\* frames, and the entry warned of.
C21_Witness ==
    /\ cmd = "compile"
    /\ pc = "done"
    /\ result = Ok
    /\ out_dmi.complete
    /\ unused = {<<"o", "l", "d">>}
    /\ <<"o", "l", "d">> \in DOMAIN yaml
    /\ Len(image.blocks) >= 4

\* The original reading of C22: whenever paint_frames returns
\* FrameCountMismatch, for a state at any position, the canvas is as it was
\* allocated: no frame of any state has been written to it.
C22_CanvasUntouchedOnMismatch ==
    cmd = "compile" /\ result.err = "FrameCountMismatch" =>
        image.blocks = <<>> /\ paint_slots = <<>>

\* C22 (amended): frame counts are validated state by state, before any frame
\* of that state is written: whenever paint_frames returns FrameCountMismatch
\* for a state, no frame of that state or of a later one has been written,
\* every frame of the states before it has been painted on the canvas in
\* memory, and no file is written.
C22_ValidatedBeforeEachState ==
    cmd = "compile" /\ result.err = "FrameCountMismatch" =>
        /\ pc = "done"
        /\ result.name = dmi.states[state_index].name
        /\ result.a = dmi.states[state_index].dirs * dmi.states[state_index].frames
        /\ result.b # result.a
        /\ Len(paint_slots) = FramesUpTo(dmi.states, state_index - 1)
        /\ Len(image.blocks) = Len(paint_slots)
        /\ \A n \in 1..Len(paint_slots) :
              /\ paint_slots[n].state < state_index
              /\ image.blocks[n].x = paint_slots[n].x
              /\ image.blocks[n].y = paint_slots[n].y
        /\ ~out_dmi.exists

\* The second state's count does not match, after four frames of the first
\* were painted.
C22_Witness ==
    /\ cmd = "compile"
    /\ result.err = "FrameCountMismatch"
    /\ state_index = 2
    /\ result.name = dmi.states[2].name
    /\ Len(image.blocks) = 4

\* The last state of the document with the name of state i.
LastNamed(i) ==
    CHOOSE j \in 1..Len(dmi.states) :
        /\ dmi.states[j].name = dmi.states[i].name
        /\ \A m \in (j + 1)..Len(dmi.states) : dmi.states[m].name # dmi.states[i].name

\* The frames of state i as they lie on the image, k frames to the row.
FramesOnImage(i, k) ==
    [f \in 1..(dmi.states[i].dirs * dmi.states[i].frames) |->
        stringify_pixel_data(
            extract_pixel_data(image,
                               RasterSlot(FramesUpTo(dmi.states, i - 1) + f, k).x,
                               RasterSlot(FramesUpTo(dmi.states, i - 1) + f, k).y,
                               dmi.width, dmi.height).bytes)]

\* C23: metadata with several states of one name is accepted by the parser,
\* and the container decompile writes holds one entry under that name: the
\* frames of the last such state, read from the slots that follow those of
\* every state before it, the earlier states of that name included.
C23_LastDuplicateWins ==
    cmd = "decompile" /\ out_yml.complete /\ dmi.width >= 1 /\ image.width >= dmi.width =>
        /\ parse_metadata(source_text).res = Ok
        /\ Len(extract_slots) = FramesNeeded
        /\ \A i \in 1..Len(dmi.states) :
              /\ Cardinality({p \in 1..Len(out_yml.data) :
                                 out_yml.data[p].key = dmi.states[i].name}) = 1
              /\ \A p \in 1..Len(out_yml.data) :
                    out_yml.data[p].key = dmi.states[i].name =>
                        out_yml.data[p].value =
                            YStr(join(FramesOnImage(LastNamed(i), image.width \div dmi.width)))

\* Two states of one name, one frame and four frames, unpacked from an image
\* whose pixels all differ.
C23_Witness ==
    /\ cmd = "decompile"
    /\ out_yml.complete
    /\ Len(dmi.states) = 2
    /\ dmi.states[1].name = dmi.states[2].name
    /\ dmi.states[1].dirs * dmi.states[1].frames = 1
    /\ dmi.states[2].dirs * dmi.states[2].frames = 4
    /\ image.blocks # <<>>
    /\ Len(extract_slots) = 5
    /\ Len(out_yml.data) = 5

\* The declared canvas holds exactly the frames needed, in whole frames.
ExactFit ==
    /\ DimensionsComputed
    /\ FramesNeeded = FramesAvailable
    /\ DeclaredWidth % dmi.width = 0
    /\ DeclaredHeight % dmi.height = 0

NoFrames(i) == dmi.states[i].dirs * dmi.states[i].frames = 0
FirstWithoutFrames ==
    CHOOSE i \in 1..Len(dmi.states) : NoFrames(i) /\ \A j \in 1..(i - 1) : ~NoFrames(j)

\* A written container as the map compile reads.
ContainerOf(data) ==
    [k \in {data[p].key : p \in 1..Len(data)} |->
        data[CHOOSE p \in 1..Len(data) : data[p].key = k].value]

\* C25: a state with dirs * frames = 0 cannot be compiled.  Whatever string
\* is under its name holds at least one frame string, so paint_frames, once
\* it is at that state, returns FrameCountMismatch with 0 expected and at
\* least 1 found (a value that is no string, or no value, is an error as
\* well), and compile never paints all states nor writes a file.  decompile
\* writes the empty string under the name of such a state, and compile on the
\* container it wrote is rejected: with FrameCountMismatch, 0 expected and 1
\* found, at the first such state when no two states have one name, and with
\* an error at an earlier state of that name otherwise.
C25_NoFramesCannotCompile ==
    /\ cmd = "compile" =>
          \A i \in 1..Len(dmi.states) :
              NoFrames(i) =>
                  /\ ~Painted
                  /\ ~out_dmi.exists
                  /\ result # Ok
                  /\ (dmi.states[i].name \in DOMAIN yaml =>
                          /\ pc = "done"
                          /\ result.tag = "Err"
                          /\ yaml[dmi.states[i].name].t = "str" =>
                                /\ SuppliedCount(yaml[dmi.states[i].name]) >= 1
                                /\ result = ErrWith("FrameCountMismatch", dmi.states[i].name, 0,
                                                    SuppliedCount(yaml[dmi.states[i].name])))
    /\ cmd = "decompile" /\ out_yml.complete /\ (\E i \in 1..Len(dmi.states) : NoFrames(i)) =>
          /\ \A i \in 1..Len(dmi.states) :
                NoFrames(i) /\ LastNamed(i) = i =>
                    ContainerOf(out_yml.data)[dmi.states[i].name] = YStr(<<>>)
          /\ \A again \in {CompiledFrom(ContainerOf(out_yml.data))} :
                /\ again.res.tag = "Err"
                /\ ((\A i, j \in 1..Len(dmi.states) :
                         dmi.states[i].name = dmi.states[j].name => i = j)
                        => again.res = ErrWith("FrameCountMismatch",
                                               dmi.states[FirstWithoutFrames].name, 0, 1))

\* A sheet of four frames of one state and none of a second has been
\* unpacked to a container, which compile rejects at the second state.
C25_Witness ==
    /\ cmd = "decompile"
    /\ out_yml.complete
    /\ Len(dmi.states) = 2
    /\ dmi.states[1].dirs * dmi.states[1].frames = 4
    /\ NoFrames(2)
    /\ dmi.states[2].name # dmi.states[1].name
    /\ ContainerOf(out_yml.data)[dmi.states[2].name] = YStr(<<>>)
    /\ CompiledFrom(ContainerOf(out_yml.data)).res
           = ErrWith("FrameCountMismatch", dmi.states[2].name, 0, 1)
    /\ Len(CompiledFrom(ContainerOf(out_yml.data)).img.blocks) = 4

\* C26: canvas growth only ever increases the canvas: whenever
\* get_image_dimensions takes the growth branch, the width it returns is at
\* least the declared width and the height at least the declared height.
C26_GrowthNeverShrinks ==
    DimensionsComputed /\ dims.grown =>
        /\ dims.w >= DeclaredWidth
        /\ dims.h >= DeclaredHeight

\* C27: unpacking never reads outside the image: every tile that
\* extract_icon_states reads lies inside it, and when the metadata declares
\* more frames than the image holds, or the image is not a whole number of
\* frames wide or high, decompile returns an error; it does not abort on a
\* pixel out of range.
C27_UnpackInsideImage ==
    cmd = "decompile" =>
        /\ \A n \in 1..Len(extract_slots) :
              /\ extract_slots[n].x + dmi.width <= image.width
              /\ extract_slots[n].y + dmi.height <= image.height
        /\ result.tag # "Panic"
        /\ (pc = "done" /\ dmi.width >= 1 /\ dmi.height >= 1
                /\ FramesNeeded > (image.width \div dmi.width) * (image.height \div dmi.height)
                => result.tag = "Err")

\* Whether the frames of the states from the i-th on number at most room,
\* counted without any product or sum beyond room.
RECURSIVE FramesFit(_, _, _)
FramesFit(states, i, room) ==
    IF i > Len(states) THEN TRUE
    ELSE IF states[i].dirs = 0 \/ states[i].frames = 0 THEN FramesFit(states, i + 1, room)
    ELSE /\ states[i].frames <= room \div states[i].dirs
         /\ FramesFit(states, i + 1, room - states[i].dirs * states[i].frames)

\* compile has parsed the metadata and read both declared dimensions as u32.
DimensionsRead ==
    /\ cmd = "compile"
    /\ pc \in {"compile_paint", "done"}
    /\ dmi # NoDmi
    /\ IMAGE_WIDTH_KEY \in DOMAIN yaml /\ get_u32(yaml[IMAGE_WIDTH_KEY]).res = Ok
    /\ IMAGE_HEIGHT_KEY \in DOMAIN yaml /\ get_u32(yaml[IMAGE_HEIGHT_KEY]).res = Ok

\* An addition or a multiplication of get_image_dimensions has an exact result
\* beyond u32.
LayoutOverflows ==
    \A w \in {get_u32(yaml[IMAGE_WIDTH_KEY])}, h \in {get_u32(yaml[IMAGE_HEIGHT_KEY])} :
        get_image_dimensions(U32(w.hi, w.v), U32(h.hi, h.v), dmi, TRUE).res
            = Panic("attempt to add or multiply with overflow")

\* C28: the layout arithmetic is safe under 32-bit unsigned wraparound: when
\* the sum of dirs * frames, the product frame_width * frame_height *
\* frames_needed or the products giving the new width and height are beyond
\* 2^32, compile fails with an error; get_image_dimensions never returns Ok
\* with a canvas that holds fewer frames than the true, unwrapped number of
\* frames needed, and a wrapped width or height never passes the size limit.
C28_LayoutSafeUnderWraparound ==
    /\ pc = "compile_paint" =>
           FramesFit(dmi.states, 1, (dims.w \div dmi.width) * (dims.h \div dmi.height))
    /\ (DimensionsRead /\ LayoutOverflows) => (pc = "done" /\ result.tag = "Err")

====
